---- MODULE Spec2Model ----
(***************************************************************************)
(* Vendor quotation comparison backend: the enhanced vendor ranking        *)
(* engine, the line-item (split award) engine, the insight engines and the *)
(* HTTP handlers that drive them.                                          *)
(*                                                                         *)
(* Numbers.  Python floats are modelled by integers on a fixed scale:      *)
(*   - pandas ranks (method "average") are half-integers: they are kept    *)
(*     doubled (Rank2Asc, Rank2Desc);                                      *)
(*   - the priority weights 0.60/0.20/0.34/0.33 are kept in hundredths;    *)
(*   - money is kept in units of 0.002 (a fifth of 0.01), so that          *)
(*     round(x, 2) is a real rounding (Round2) and never a tie.            *)
(***************************************************************************)
EXTENDS Integers, Sequences, FiniteSets, TLC

VARIABLES
    priority,        \* the request's priority (PriorityType value)
    vendors_data,    \* rank_vendors input: aggregated vendor records
    results,         \* rank_vendors outcome
    raw_data,        \* raw quotation rows handed to analyze_materials
    line_item_data,  \* analyze_materials outcome
    llm,             \* insight engine: client configured? + per-call outcomes
    ai,              \* insight engine outcome
    request,         \* HTTP request being handled
    response,        \* HTTP response of the handler
    calls,           \* how often the handler invoked each collaborator
    db,              \* the quotation store: what its operations will do
    handlers,        \* concurrent requests: each handler's position and locals
    engines          \* concurrent requests: the engine objects' attributes

vars == <<priority, vendors_data, results, raw_data, line_item_data,
          llm, ai, request, response, calls, db, handlers, engines>>

rankVars == <<priority, vendors_data, results>>
lineVars == <<raw_data, line_item_data>>
aiVars   == <<llm, ai>>
apiVars  == <<request, response, calls, db>>
concVars == <<handlers, engines>>

(***************************************************************************)
(* Bounds of the model and value sets of the inputs.                       *)
(***************************************************************************)
MaxVendors == 3

PriorityType == {"balanced", "low_price", "fast_delivery", "payment_terms"}

Prices    == {100, 120}      \* representative unit prices
PayDays   == {0, 30}         \* payment-term days
DelDays   == {0, 5}          \* delivery days (0: no delivery time quoted)

NoResult == [status |-> "none", error |-> "", list |-> <<>>]

(***************************************************************************)
(* Generic helpers.                                                        *)
(***************************************************************************)
Range(s) == {s[i] : i \in DOMAIN s}

SetMin(S) == CHOOSE x \in S : \A y \in S : x <= y
SetMax(S) == CHOOSE x \in S : \A y \in S : x >= y

RECURSIVE SumSeq(_)
SumSeq(s) == IF s = <<>> THEN 0 ELSE Head(s) + SumSeq(Tail(s))

\* round(x, 2) of an amount kept in units of 0.002: the nearest multiple of 5.
Round2(x) == LET r == x % 5 IN IF r <= 2 THEN x - r ELSE x + (5 - r)

\* round(num / den, 0) for den > 0, ties to the even neighbour.
RoundHalfEven(num, den) ==
    LET q == num \div den
        r == num % den
    IN  IF 2 * r < den THEN q
        ELSE IF 2 * r > den THEN q + 1
        ELSE IF q % 2 = 0 THEN q ELSE q + 1

\* All orders (permutations) of the row positions 1..n.
Perms == [n \in 0..(MaxVendors + 1) |->
            {f \in [1..n -> 1..n] : \A i, j \in 1..n : i # j => f[i] # f[j]}]

\* Vendor names are compared for equality only: a pool's names are numbered
\* in order of first appearance (a name is one already used or the next new one).
NameLists(n) ==
    {f \in [1..n -> 1..n] :
        \A i \in 1..n : f[i] <= 1 + Cardinality({f[j] : j \in 1..(i - 1)})
                        /\ (i = 1 => f[i] = 1)
                        /\ \A k \in 1..(f[i] - 1) : \E j \in 1..(i - 1) : f[j] = k}

(***************************************************************************)
(* Enhanced VendorComparisonEngine.                                        *)
(***************************************************************************)

weights_delivery_first(p) ==
    IF p = "low_price" THEN [price |-> 20, payment_terms |-> 20, delivery |-> 60]
    ELSE IF p = "fast_delivery" THEN [price |-> 20, payment_terms |-> 20, delivery |-> 60]
    ELSE IF p = "payment_terms" THEN [price |-> 20, payment_terms |-> 60, delivery |-> 20]
    ELSE [price |-> 34, payment_terms |-> 33, delivery |-> 33]

\* __init__: priority -> dimension weights, in hundredths.
weights(p) ==
    IF p = "low_price" THEN [price |-> 60, payment_terms |-> 20, delivery |-> 20]
    ELSE IF p = "fast_delivery" THEN [price |-> 20, payment_terms |-> 20, delivery |-> 60]
    ELSE IF p = "payment_terms" THEN [price |-> 20, payment_terms |-> 60, delivery |-> 20]
    ELSE [price |-> 34, payment_terms |-> 33, delivery |-> 33]

\* Series.rank(ascending=True), method "average", doubled.
Rank2Asc(col, i) ==
    2 * Cardinality({j \in DOMAIN col : col[j] < col[i]})
      + Cardinality({j \in DOMAIN col : col[j] = col[i]}) + 1

\* Series.rank(ascending=False), method "average", doubled.
Rank2Desc(col, i) ==
    2 * Cardinality({j \in DOMAIN col : col[j] > col[i]})
      + Cardinality({j \in DOMAIN col : col[j] = col[i]}) + 1

Column(vd, field) == [i \in DOMAIN vd |-> vd[i][field]]

\* quoted_amount = sum(price * qty) over the vendor's materials.
quoted_amount(v) ==
    SumSeq([k \in DOMAIN v.materials |-> v.materials[k].price * v.materials[k].qty])

\* payment_rank_normalized of row i, times 2 * len(df): the descending rank
\* of the row's payment days (the most days have rank 1) over the row count.
payment_rank_normalized(vd, i) == Rank2Desc(Column(vd, "payment_terms_days"), i)

\* df['rank_score'] of row i, times 20 * len(df) (a positive factor common to
\* all rows of one pool, so the order of the scores is the code's).
rank_score(vd, p, i) ==
    LET n == Len(vd)
        w == weights(p)
    IN  (2 * n - Rank2Asc(Column(vd, "price"), i) + 2) * w.price
      + (2 * n - Rank2Asc(Column(vd, "delivery_days"), i) + 2) * w.delivery
      + payment_rank_normalized(vd, i) * w.payment_terms

\* df.sort_values('rank_score', ascending=False): the row orders the sort may
\* produce.  The default sort kind is not stable, so rows of equal score may
\* come out in any order.
SortOrders(vd, p) ==
    {o \in Perms[Len(vd)] :
        \A i, j \in 1..Len(vd) :
            i < j => rank_score(vd, p, o[i]) >= rank_score(vd, p, o[j])}

display_score_from_rank(rank, n) ==
    IF n > 1 THEN (100 * (n - 1) - 80 * rank) \div (n - 1) ELSE 100

\* display_score = int(100 - (rank - 1) * (80 / (N - 1))), 100 for one vendor.
display_score(rank, n) ==
    IF n > 1 THEN (100 * (n - 1) - 80 * (rank - 1)) \div (n - 1) ELSE 100

\* Series.idxmin()/idxmax() on the sorted frame: the first row, in sorted
\* order, that holds the extreme value; its vendor_name is the winner.
FirstRow(vd, o, S) == vd[o[SetMin({k \in 1..Len(vd) : o[k] \in S})]]

best_price_vendor(vd, o) ==
    LET m == SetMin({vd[i].price : i \in DOMAIN vd})
    IN  FirstRow(vd, o, {i \in DOMAIN vd : vd[i].price = m}).vendor_name

\* df[df['delivery_days'] > 0]['delivery_days'].idxmin(): only rows with
\* positive delivery days take part; an empty selection raises ValueError.
HasPositiveDelivery(vd) == \E i \in DOMAIN vd : vd[i].delivery_days > 0

best_delivery_vendor(vd, o) ==
    LET pos == {i \in DOMAIN vd : vd[i].delivery_days > 0}
        m   == SetMin({vd[i].delivery_days : i \in pos})
    IN  FirstRow(vd, o, {i \in pos : vd[i].delivery_days = m}).vendor_name

best_payment_vendor(vd, o) ==
    LET m == SetMax({vd[i].payment_terms_days : i \in DOMAIN vd})
    IN  FirstRow(vd, o, {i \in DOMAIN vd : vd[i].payment_terms_days = m}).vendor_name

\* The badges of one result row: the comparison is by vendor_name.
category_winners(vd, o, name) ==
    (IF name = best_price_vendor(vd, o) THEN {"Best Price"} ELSE {})
    \cup (IF name = best_delivery_vendor(vd, o) THEN {"Fastest Delivery"} ELSE {})
    \cup (IF name = best_payment_vendor(vd, o) THEN {"Best Payment Terms"} ELSE {})

\* _calculate_dimension_scores, price: the score (in tenths) from the
\* percentage above the lowest price.  With a lowest price of 0 the
\* percentage is inf or nan, every comparison fails and the last branch is
\* taken.
price_dimension_score(vd, i) ==
    LET col  == Column(vd, "price")
        minp == SetMin(Range(col))
        maxp == SetMax(Range(col))
        d    == (col[i] - minp) * 100
    IN  IF maxp > minp
        THEN IF minp = 0 THEN 15
             ELSE IF d = 0 THEN 100
             ELSE IF d < 2 * minp THEN 95
             ELSE IF d < 5 * minp THEN 90
             ELSE IF d < 10 * minp THEN 75
             ELSE IF d < 15 * minp THEN 60
             ELSE IF d < 20 * minp THEN 45
             ELSE IF d < 30 * minp THEN 30
             ELSE 15
        ELSE 100

price_confidence(vd, i) ==
    LET col  == Column(vd, "price")
        minp == SetMin(Range(col))
    IN  IF col[i] = minp THEN 95
        ELSE IF minp = 0 \/ (col[i] - minp) * 100 < 10 * minp THEN 90
        ELSE 92

\* _calculate_dimension_scores, delivery: the percentage is taken as 0 when
\* the fastest delivery is 0 days.
delivery_dimension_score(vd, i) ==
    LET col  == Column(vd, "delivery_days")
        mind == SetMin(Range(col))
        maxd == SetMax(Range(col))
        d    == IF mind > 0 THEN (col[i] - mind) * 100 ELSE 0
    IN  IF maxd > mind
        THEN IF d = 0 THEN 100
             ELSE IF d < 10 * mind THEN 90
             ELSE IF d < 20 * mind THEN 75
             ELSE IF d < 30 * mind THEN 60
             ELSE IF d < 50 * mind THEN 45
             ELSE 30
        ELSE 100

delivery_confidence(vd, i) ==
    LET col == Column(vd, "delivery_days")
    IN  IF col[i] = SetMin(Range(col)) THEN 95
        ELSE IF col[i] * Len(vd) <= SumSeq(col) THEN 88
        ELSE 85

\* _calculate_dimension_scores, payment terms: linear between the shortest
\* and the longest credit, rounded to one decimal.
payment_dimension_score(vd, i) ==
    LET col  == Column(vd, "payment_terms_days")
        minp == SetMin(Range(col))
        maxp == SetMax(Range(col))
    IN  IF maxp > minp THEN RoundHalfEven(100 * (col[i] - minp), maxp - minp)
        ELSE IF col[i] > 0 THEN 100 ELSE 30

payment_confidence(vd, i) ==
    IF vd[i].payment_terms_days = 0 THEN 95
    ELSE IF vd[i].payment_terms_days >= 30 THEN 90 ELSE 88

\* _calculate_dimension_scores, overall score before rounding, as the
\* fraction num/den of a tenth: the weighted price, delivery and payment
\* scores plus a fixed 0.10 share of the history score 8.0.  The payment
\* score enters unrounded.
overall_score_exact(vd, p, i) ==
    LET w    == weights(p)
        col  == Column(vd, "payment_terms_days")
        minp == SetMin(Range(col))
        maxp == SetMax(Range(col))
        d    == IF maxp > minp THEN maxp - minp ELSE 1
        pay  == IF maxp > minp THEN 100 * (col[i] - minp)
                ELSE IF col[i] > 0 THEN 100 ELSE 30
    IN  [num |-> (price_dimension_score(vd, i) * w.price
                  + delivery_dimension_score(vd, i) * w.delivery
                  + 80 * 10) * d
                 + pay * w.payment_terms,
         den |-> 100 * d]

\* round(overall_score, 1), in tenths.  A value that lies exactly between two
\* tenths is a float a hair above or below the middle: either neighbour can
\* come out.
overall_scores(vd, p, i) ==
    LET e == overall_score_exact(vd, p, i)
        q == e.num \div e.den
    IN  IF 2 * (e.num % e.den) = e.den THEN {q, q + 1}
        ELSE {RoundHalfEven(e.num, e.den)}

\* The overall_score columns the frame can get.
OverallScores(vd, p) ==
    {ov \in [DOMAIN vd -> UNION {overall_scores(vd, p, i) : i \in DOMAIN vd}] :
        \A i \in DOMAIN vd : ov[i] \in overall_scores(vd, p, i)}

\* The dimension_scores array of row i: four scored dimensions (tenths) and
\* two boolean ones, which carry no score.
dimension_scores(vd, i) ==
    <<[dimension_code |-> "PRICE", has_score |-> TRUE,
       score |-> price_dimension_score(vd, i), bool_value |-> FALSE,
       confidence |-> price_confidence(vd, i)],
      [dimension_code |-> "DELIVERY", has_score |-> TRUE,
       score |-> delivery_dimension_score(vd, i), bool_value |-> FALSE,
       confidence |-> delivery_confidence(vd, i)],
      [dimension_code |-> "PAYMENT_TERMS", has_score |-> TRUE,
       score |-> payment_dimension_score(vd, i), bool_value |-> FALSE,
       confidence |-> payment_confidence(vd, i)],
      [dimension_code |-> "VENDOR_HISTORY", has_score |-> TRUE,
       score |-> 80, bool_value |-> FALSE, confidence |-> 80],
      [dimension_code |-> "QUALITY_COMP", has_score |-> FALSE,
       score |-> 0, bool_value |-> TRUE, confidence |-> 85],
      [dimension_code |-> "CAPACITY", has_score |-> FALSE,
       score |-> 0, bool_value |-> TRUE, confidence |-> 88]>>

\* The VendorAnalysis list built from the frame sorted in order o, with
\* overall_score column ov.
VendorAnalysisList(vd, p, o, ov) ==
    [k \in 1..Len(vd) |->
        [rank               |-> k,
         vendor_name        |-> vd[o[k]].vendor_name,
         overall_score      |-> ov[o[k]],
         quoted_amount      |-> quoted_amount(vd[o[k]]),
         score              |-> rank_score(vd, p, o[k]),
         display_score      |-> display_score(k, Len(vd)),
         price              |-> vd[o[k]].price,
         payment_terms_days |-> vd[o[k]].payment_terms_days,
         delivery_days      |-> vd[o[k]].delivery_days,
         dimension_scores   |-> dimension_scores(vd, o[k]),
         category_winners   |-> category_winners(vd, o, vd[o[k]].vendor_name)]]

\* rank_vendors(vendors_data) with the frame sorted in order o and
\* overall_score column ov.
rank_vendors(vd, p, o, ov) ==
    IF vd = <<>> THEN [status |-> "returned", error |-> "", list |-> <<>>]
    ELSE IF ~HasPositiveDelivery(vd)
         THEN [status |-> "raised", error |-> "ValueError", list |-> <<>>]
         ELSE [status |-> "returned", error |-> "",
               list |-> VendorAnalysisList(vd, p, o, ov)]

(***************************************************************************)
(* Specification SpecRank: rank_vendors on every bounded vendor pool.      *)
(***************************************************************************)
VendorPools(maxn) ==
    UNION {
        {[i \in 1..n |->
            [vendor_name        |-> names[i],
             price              |-> cols[i][1],
             payment_terms_days |-> cols[i][2],
             delivery_days      |-> cols[i][3],
             materials          |-> <<>>]] :
            names \in NameLists(n),
            cols \in [1..n -> Prices \X PayDays \X DelDays]}
        : n \in 0..maxn}

InitRank ==
    /\ handlers = <<>>
    /\ engines = <<>>
    /\ priority \in PriorityType
    /\ vendors_data \in VendorPools(MaxVendors)
    /\ results = NoResult
    /\ raw_data = <<>>
    /\ line_item_data = NoResult
    /\ llm = <<>>
    /\ ai = NoResult
    /\ request = <<>>
    /\ response = NoResult
    /\ calls = <<>>
    /\ db = <<>>

RankVendors ==
    /\ results.status = "none"
    /\ \E o \in SortOrders(vendors_data, priority) :
       \E ov \in OverallScores(vendors_data, priority) :
          results' = rank_vendors(vendors_data, priority, o, ov)
    /\ UNCHANGED <<priority, vendors_data, lineVars, aiVars, apiVars, concVars>>

NextRank == RankVendors

SpecRank == InitRank /\ [][NextRank]_vars

(***************************************************************************)
(* SpecScore and SpecPrice: rank_vendors on pools chosen for the scores.   *)
(* The result of rank_vendors does not depend on the order of the input    *)
(* rows beyond the sort's freedom (SortOrders), so these pools list their  *)
(* vendors in one order only; every vendor has its own name.               *)
(***************************************************************************)
ScorePrices  == {100, 120}
ScorePayDays == {0, 30}
ScoreDelDays == {0, 5, 10}

\* Unit prices around every step of the price curve above a lowest price of
\* 100, and a free quotation.
StepPrices ==
    {0, 100, 101, 102, 104, 105, 109, 110, 114, 115, 119, 120, 129, 130, 140}

\* The pools of at most maxn vendors with the given parameter triples.
OrderedPools(triples, maxn) ==
    UNION {
        {[i \in 1..n |->
            [vendor_name        |-> i,
             price              |-> c[i][1],
             payment_terms_days |-> c[i][2],
             delivery_days      |-> c[i][3],
             materials          |-> <<>>]] :
            c \in {d \in [1..n -> triples] :
                    \A i \in 1..(n - 1) :
                        d[i][1] * 10000 + d[i][2] * 100 + d[i][3]
                            <= d[i + 1][1] * 10000 + d[i + 1][2] * 100 + d[i + 1][3]}}
        : n \in 0..maxn}

InitScore ==
    /\ handlers = <<>>
    /\ engines = <<>>
    /\ priority \in PriorityType
    /\ vendors_data \in OrderedPools(ScorePrices \X ScorePayDays \X ScoreDelDays,
                                     MaxVendors)
    /\ results = NoResult
    /\ raw_data = <<>>
    /\ line_item_data = NoResult
    /\ llm = <<>>
    /\ ai = NoResult
    /\ request = <<>>
    /\ response = NoResult
    /\ calls = <<>>
    /\ db = <<>>

SpecScore == InitScore /\ [][NextRank]_vars

InitPrice ==
    /\ handlers = <<>>
    /\ engines = <<>>
    /\ priority \in PriorityType
    /\ vendors_data \in OrderedPools(StepPrices \X {30} \X {5}, MaxVendors)
    /\ results = NoResult
    /\ raw_data = <<>>
    /\ line_item_data = NoResult
    /\ llm = <<>>
    /\ ai = NoResult
    /\ request = <<>>
    /\ response = NoResult
    /\ calls = <<>>
    /\ db = <<>>

SpecPrice == InitPrice /\ [][NextRank]_vars

(***************************************************************************)
(* LineItemComparisonEngine.                                               *)
(***************************************************************************)

\* The members of a set of integers as an ascending sequence.
Ascending(S) ==
    [k \in 1..Cardinality(S) |->
        CHOOSE i \in S : Cardinality({j \in S : j < i}) = k - 1]

\* The positions that hold the first occurrence of their key (dict insertion
\* order), ascending.
FirstPositions(keys) ==
    Ascending({i \in DOMAIN keys : \A j \in 1..(i - 1) : keys[j] # keys[i]})

LineItem_map_payment_term_three_digit_only(code) ==
    CASE code = "000" -> 0  [] code = "015" -> 15 [] code = "030" -> 30
      [] code = "060" -> 60 [] code = "090" -> 90
      [] OTHER -> 0

\* LineItemComparisonEngine._map_payment_term: 2-digit and 3-digit codes.
LineItem_map_payment_term(code) ==
    CASE code = "00" -> 0   [] code = "01" -> 90  [] code = "02" -> 30
      [] code = "03" -> 45  [] code = "04" -> 60  [] code = "05" -> 90
      [] code = "000" -> 0  [] code = "015" -> 15 [] code = "030" -> 30
      [] code = "060" -> 60 [] code = "090" -> 90
      [] OTHER -> 0

\* _group_by_material: one entry per material code in order of first
\* appearance; qty is the first row's QTY; quotes are in row order.
_group_by_material(raw) ==
    LET codes == [i \in DOMAIN raw |-> raw[i].MAT_CODE]
        first == FirstPositions(codes)
    IN  [m \in DOMAIN first |->
            LET code == raw[first[m]].MAT_CODE
                OfMat(r) == r.MAT_CODE = code
                rows == SelectSeq(raw, OfMat)
            IN  [mat_code |-> code,
                 qty |-> raw[first[m]].QTY,
                 vendor_quotes |->
                    [k \in DOMAIN rows |->
                        [vendor_name        |-> rows[k].VENDOR_NAME,
                         price              |-> rows[k].BASIC_PRICE,
                         payment_terms_days |-> LineItem_map_payment_term(rows[k].PAY_TERM),
                         delivery_days      |-> rows[k].DELIVERY_DAYS]]]]

\* df['score'] with the balanced formula for every priority.
material_score_balanced(q, p, i) ==
    Rank2Asc(Column(q, "price"), i) + Rank2Asc(Column(q, "delivery_days"), i)
        + Rank2Desc(Column(q, "payment_terms_days"), i)

\* df['score'] of quote i (doubled, as the ranks are): the priority's rank
\* counts three times, the other two once; all once for balanced.
material_score(q, p, i) ==
    LET rp == Rank2Asc(Column(q, "price"), i)
        rd == Rank2Asc(Column(q, "delivery_days"), i)
        ry == Rank2Desc(Column(q, "payment_terms_days"), i)
    IN  IF p = "low_price" THEN rp * 3 + rd + ry
        ELSE IF p = "fast_delivery" THEN rd * 3 + rp + ry
        ELSE IF p = "payment_terms" THEN ry * 3 + rp + rd
        ELSE rp + rd + ry

\* df.sort_values('score'): the row orders the (unstable) sort may produce.
MaterialSortOrders(q, p) ==
    {o \in Perms[Len(q)] :
        \A i, j \in 1..Len(q) :
            i < j => material_score(q, p, o[i]) <= material_score(q, p, o[j])}

\* _analyze_single_material with the frame sorted in order o.
_analyze_single_material(mat, p, o) ==
    LET q     == mat.vendor_quotes
        n     == Len(q)
        best  == SetMin({q[i].price : i \in 1..n})
        worst == SetMax({q[i].price : i \in 1..n})
        minD  == SetMin({q[i].delivery_days : i \in 1..n})
        maxP  == SetMax({q[i].payment_terms_days : i \in 1..n})
        bestPriceVendor == FirstRow(q, o, {i \in 1..n : q[i].price = best}).vendor_name
        bestDelVendor   == FirstRow(q, o, {i \in 1..n : q[i].delivery_days = minD}).vendor_name
        bestPayVendor   == FirstRow(q, o, {i \in 1..n : q[i].payment_terms_days = maxP}).vendor_name
        rows ==
            [k \in 1..n |->
                [vendor_name            |-> q[o[k]].vendor_name,
                 price                  |-> q[o[k]].price,
                 payment_terms_days     |-> q[o[k]].payment_terms_days,
                 delivery_days          |-> q[o[k]].delivery_days,
                 total_value            |-> q[o[k]].price * mat.qty,
                 score                  |-> material_score(q, p, o[k]),
                 rank_for_this_material |-> k,
                 is_best_price          |-> q[o[k]].vendor_name = bestPriceVendor,
                 is_best_payment        |-> q[o[k]].vendor_name = bestPayVendor,
                 is_best_delivery       |-> q[o[k]].vendor_name = bestDelVendor,
                 price_difference_from_best |-> q[o[k]].price - best,
                 savings_vs_worst       |-> (worst - q[o[k]].price) * mat.qty]]
        recommended == rows[1]
    IN  [mat_code |-> mat.mat_code,
         qty |-> mat.qty,
         vendor_quotes |-> rows,
         recommended_vendor |->
            [vendor_name        |-> recommended.vendor_name,
             price              |-> recommended.price,
             payment_terms_days |-> recommended.payment_terms_days,
             delivery_days      |-> recommended.delivery_days,
             total_value        |-> recommended.total_value,
             score              |-> recommended.score,
             display_score      |-> display_score(recommended.rank_for_this_material, n),
             savings            |-> recommended.savings_vs_worst,
             alternative        |-> IF n > 1 THEN <<rows[2].vendor_name>> ELSE <<>>]]

vendor_allocation_assign(ma) ==
    LET names == [m \in DOMAIN ma |-> ma[m].recommended_vendor.vendor_name]
        first == FirstPositions(names)
    IN  [a \in DOMAIN first |->
            LET mine == Ascending({m \in DOMAIN ma : names[m] = names[first[a]]})
            IN  [vendor_name    |-> names[first[a]],
                 material_codes |-> [k \in DOMAIN mine |-> ma[mine[k]].mat_code],
                 material_count |-> Len(mine),
                 total_value    |-> ma[mine[Len(mine)]].recommended_vendor.total_value]]

\* The vendor_allocation dict after the loop over the materials: one entry
\* per recommended vendor, in order of first recommendation.
vendor_allocation(ma) ==
    LET names == [m \in DOMAIN ma |-> ma[m].recommended_vendor.vendor_name]
        first == FirstPositions(names)
    IN  [a \in DOMAIN first |->
            LET mine == Ascending({m \in DOMAIN ma : names[m] = names[first[a]]})
            IN  [vendor_name    |-> names[first[a]],
                 material_codes |-> [k \in DOMAIN mine |-> ma[mine[k]].mat_code],
                 material_count |-> Len(mine),
                 total_value    |->
                    SumSeq([k \in DOMAIN mine |-> ma[mine[k]].recommended_vendor.total_value])]]

\* total_split_cost after the loop.
total_split_cost(ma) ==
    SumSeq([m \in DOMAIN ma |-> ma[m].recommended_vendor.total_value])

\* all_vendors: every vendor name that quotes some material.
all_vendors(ma) ==
    UNION {{ma[m].vendor_quotes[k].vendor_name : k \in DOMAIN ma[m].vendor_quotes} :
            m \in DOMAIN ma}

\* next(q for q in vendor_quotes if q['vendor_name'] == name): the position of
\* the first such quote, 0 when there is none.
first_quote(material, name) ==
    LET S == {k \in DOMAIN material.vendor_quotes :
                material.vendor_quotes[k].vendor_name = name}
    IN  IF S = {} THEN 0 ELSE SetMin(S)

\* single_vendor_costs without can_supply: every vendor, with the sum of the
\* quotes it has.
single_vendor_costs_any_vendor(ma) ==
    {[vendor_name |-> v,
      total_cost  |-> SumSeq([m \in DOMAIN ma |->
                        IF first_quote(ma[m], v) = 0 THEN 0
                        ELSE ma[m].vendor_quotes[first_quote(ma[m], v)].total_value])] :
        v \in all_vendors(ma)}

\* single_vendor_costs: the vendors that quote every material, with the
\* sum of their quotes.
single_vendor_costs(ma) ==
    {[vendor_name |-> v,
      total_cost  |-> SumSeq([m \in DOMAIN ma |->
                        ma[m].vendor_quotes[first_quote(ma[m], v)].total_value])] :
        v \in {u \in all_vendors(ma) : \A m \in DOMAIN ma : first_quote(ma[m], u) # 0}}

\* best_single falling back to the cost of the split when no vendor quotes
\* every material.
best_singles_split_fallback(ma) ==
    LET c == single_vendor_costs(ma)
    IN  IF c = {} THEN {[vendor_name |-> "Unknown", total_cost |-> total_split_cost(ma)]}
        ELSE {e \in c : \A f \in c : e.total_cost <= f.total_cost}

\* min(single_vendor_costs, key=total_cost): the list is built by iterating a
\* set of strings, so any of the cheapest entries may come first.
best_singles(ma) ==
    LET c == single_vendor_costs(ma)
    IN  IF c = {} THEN {[vendor_name |-> "Unknown", total_cost |-> 0]}
        ELSE {e \in c : \A f \in c : e.total_cost <= f.total_cost}

is_recommended_rounded(savings, vendor_count) ==
    Round2(savings) > 0 /\ vendor_count > 1

\* "is_recommended": savings > 0 and len(vendor_allocation) > 1
is_recommended(savings, vendor_count) ==
    savings > 0 /\ vendor_count > 1

\* _calculate_split_award for a non-empty material_analysis, with best_single
\* the entry min() picked.  Percentages are kept as fractions num/den;
\* savings_percentage is in hundredths of a percent.
_calculate_split_award(ma, best_single) ==
    LET alloc   == vendor_allocation(ma)
        total   == total_split_cost(ma)
        savings == best_single.total_cost - total
    IN  [is_recommended           |-> is_recommended(savings, Len(alloc)),
         total_cost_split         |-> Round2(total),
         total_cost_single_vendor |-> Round2(best_single.total_cost),
         total_savings            |-> Round2(savings),
         savings_percentage       |->
            IF best_single.total_cost > 0
            THEN RoundHalfEven(savings * 10000, best_single.total_cost) ELSE 0,
         vendor_count             |-> Len(alloc),
         vendor_allocation        |->
            [a \in DOMAIN alloc |->
                [vendor_name    |-> alloc[a].vendor_name,
                 material_codes |-> alloc[a].material_codes,
                 material_count |-> alloc[a].material_count,
                 total_value    |-> alloc[a].total_value,
                 percentage_of_order |->
                    IF total > 0 THEN [num |-> alloc[a].total_value * 100, den |-> total]
                    ELSE [num |-> 0, den |-> 1]]],
         single_vendor_option     |-> best_single.vendor_name]

EmptySplitAward ==
    [is_recommended |-> FALSE, total_cost_split |-> 0, total_cost_single_vendor |-> 0,
     total_savings |-> 0, savings_percentage |-> 0, vendor_count |-> 0,
     vendor_allocation |-> <<>>, single_vendor_option |-> "Unknown"]

\* The per-material analyses for sort orders os (one per material).
material_analysis(raw, p, os) ==
    LET g == _group_by_material(raw)
    IN  [m \in DOMAIN g |-> _analyze_single_material(g[m], p, os[m])]

\* The sort orders analyze_materials may see for the first m materials of g,
\* one per material.
RECURSIVE AnalysisOrders(_, _, _)
AnalysisOrders(g, p, m) ==
    IF m = 0 THEN {<<>>}
    ELSE {Append(os, o) : os \in AnalysisOrders(g, p, m - 1),
                          o \in MaterialSortOrders(g[m].vendor_quotes, p)}

\* analyze_materials.
analyze_materials(raw, p, os, best_single) ==
    IF raw = <<>>
    THEN [materials |-> <<>>, split_award_strategy |-> EmptySplitAward]
    ELSE [materials |-> material_analysis(raw, p, os),
          split_award_strategy |->
            _calculate_split_award(material_analysis(raw, p, os), best_single)]

(***************************************************************************)
(* SpecLine: analyze_materials on the rows of one RFQ.  The rows are what  *)
(* fetch_vendor_quotations returns: ORDER BY MAT_CODE, BASIC_PRICE, one    *)
(* row per vendor and material, QTY a property of the material, PAY_TERM   *)
(* and DELIVERY_DAYS a property of the vendor's quotation header.          *)
(***************************************************************************)
MaxMaterials == 2
LineVendors == {"X", "Y"}
LinePrices  == {10, 12}
Qtys        == {1, 5}
\* The vendors' quotation headers: the same terms for both vendors, or
\* different terms (which vendor has which is covered by the quotes, which
\* take the vendors in either order).
VendorProfiles ==
    {[v \in LineVendors |-> [PAY_TERM |-> "02", DELIVERY_DAYS |-> 5]],
     [v \in LineVendors |->
        IF v = "X" THEN [PAY_TERM |-> "02", DELIVERY_DAYS |-> 5]
                   ELSE [PAY_TERM |-> "000", DELIVERY_DAYS |-> 10]]}

\* The quotes one material can have: distinct vendors, prices ascending.
QuoteLists(prices) ==
    UNION {{q \in [1..n -> LineVendors \X prices] :
                \A i, j \in 1..n : i < j => q[i][1] # q[j][1] /\ q[i][2] <= q[j][2]} :
            n \in 0..Cardinality(LineVendors)}

RECURSIVE Rows(_, _, _, _)
Rows(quotes, qty, profile, m) ==
    IF m = 0 THEN <<>>
    ELSE Rows(quotes, qty, profile, m - 1) \o
         [k \in DOMAIN quotes[m] |->
            [VENDOR_NAME   |-> quotes[m][k][1],
             PAY_TERM      |-> profile[quotes[m][k][1]].PAY_TERM,
             DELIVERY_DAYS |-> profile[quotes[m][k][1]].DELIVERY_DAYS,
             MAT_CODE      |-> m,
             BASIC_PRICE   |-> quotes[m][k][2],
             QTY           |-> qty[m]]]

\* The row lists the query can return for the given prices, quantities and
\* vendor profiles.
RawData(prices, qtys, profiles) ==
    {Rows(quotes, qty, profile, MaxMaterials) :
        quotes \in [1..MaxMaterials -> QuoteLists(prices)],
        qty \in [1..MaxMaterials -> qtys],
        profile \in profiles}

RawDataSets == RawData(LinePrices, Qtys, VendorProfiles)

InitLine ==
    /\ handlers = <<>>
    /\ engines = <<>>
    /\ priority \in PriorityType
    /\ raw_data \in RawDataSets
    /\ line_item_data = NoResult
    /\ vendors_data = <<>>
    /\ results = NoResult
    /\ llm = <<>>
    /\ ai = NoResult
    /\ request = <<>>
    /\ response = NoResult
    /\ calls = <<>>
    /\ db = <<>>

AnalyzeMaterials ==
    /\ line_item_data.status = "none"
    /\ LET g == _group_by_material(raw_data)
       IN  \E os \in AnalysisOrders(g, priority, Len(g)) :
             \E best_single \in best_singles(material_analysis(raw_data, priority, os)) :
                line_item_data' =
                    [status |-> "returned", error |-> "",
                     list |-> <<analyze_materials(raw_data, priority, os, best_single)>>]
    /\ UNCHANGED <<raw_data, rankVars, aiVars, apiVars, concVars>>

NextLine == AnalyzeMaterials

SpecLine == InitLine /\ [][NextLine]_vars

(***************************************************************************)
(* Text.  A text is a sequence of pieces: " " is one blank, "\n" one line  *)
(* break, every other piece a run of characters without blanks at its      *)
(* ends, without double blanks, line breaks or markdown markers (so the    *)
(* markdown rules of _clean_markdown leave it alone).                      *)
(***************************************************************************)
IsSpace(c) == c \in {" ", "\n"}

\* len() of a piece.
PieceLen(c) ==
    IF IsSpace(c) THEN 1
    ELSE IF c \in {"ok", "1.", "2.", "3."} THEN 2
    ELSE IF c = "N/A" THEN 3
    ELSE 21

TextLen(t) == SumSeq([i \in DOMAIN t |-> PieceLen(t[i])])

\* str.strip()
strip(t) ==
    LET S == {i \in DOMAIN t : ~IsSpace(t[i])}
    IN  IF S = {} THEN <<>> ELSE SubSeq(t, SetMin(S), SetMax(S))

\* re.sub of a run of more than keep pieces c by keep of them.
Squeeze(t, c, keep) ==
    LET S == {i \in DOMAIN t :
                ~(t[i] = c /\ i > keep /\ \A j \in (i - keep)..(i - 1) : t[j] = c)}
        a == Ascending(S)
    IN  [k \in DOMAIN a |-> t[a[k]]]

\* _clean_markdown on a text without markdown markers: \n{3,} -> \n\n,
\* ' {2,}' -> ' ', strip.
_clean_markdown(t) == strip(Squeeze(Squeeze(t, "\n", 2), " ", 1))

\* str.split('\n')
RECURSIVE split_lines(_)
split_lines(t) ==
    LET S == {i \in DOMAIN t : t[i] = "\n"}
    IN  IF S = {} THEN <<t>>
        ELSE <<SubSeq(t, 1, SetMin(S) - 1)>> \o split_lines(SubSeq(t, SetMin(S) + 1, Len(t)))

\* "\n".join(lines)
RECURSIVE join_lines(_)
join_lines(lines) ==
    IF lines = <<>> THEN <<>>
    ELSE IF Len(lines) = 1 THEN lines[1]
    ELSE lines[1] \o <<"\n">> \o join_lines(Tail(lines))

\* re.sub(r'^\d+[\.\)]\s*', '', line)
strip_numbering(line) ==
    IF line # <<>> /\ Head(line) \in {"1.", "2.", "3."}
    THEN LET rest == Tail(line)
             S == {i \in DOMAIN rest : ~IsSpace(rest[i])}
         IN  IF S = {} THEN <<>> ELSE SubSeq(rest, SetMin(S), Len(rest))
    ELSE line

\* s[:n]
Take(s, n) == SubSeq(s, 1, IF Len(s) < n THEN Len(s) ELSE n)

(***************************************************************************)
(* The LLM client: what one chat.completions.create call can do.           *)
(***************************************************************************)
LLMTexts ==
    {<<>>, <<" ">>,
     <<"1.", " ", "Ask for a 5% discount", " ", " ", "ok", "\n", "\n", "\n", "ok", " ">>}

LLMOutcomes ==
    {[kind |-> "exception", choices |-> 0, has_content |-> FALSE, content |-> <<>>],
     [kind |-> "response", choices |-> 0, has_content |-> FALSE, content |-> <<>>],
     [kind |-> "response", choices |-> 1, has_content |-> FALSE, content |-> <<>>]}
    \cup {[kind |-> "response", choices |-> 1, has_content |-> TRUE, content |-> t] :
            t \in LLMTexts}

\* AIInsightsEngineEnhanced._safe_llm_call for one outcome of the call.
_safe_llm_call(outcome, fallback) ==
    IF outcome.kind = "exception" THEN fallback
    ELSE IF outcome.choices > 0 /\ outcome.has_content /\ outcome.content # <<>>
         THEN _clean_markdown(strip(outcome.content))
         ELSE fallback

(***************************************************************************)
(* AIInsightsEngineEnhanced.  A vendor_analysis is the list rank_vendors   *)
(* returned; line_item_data is None (NoResult) or what analyze_materials   *)
(* returned; client says whether an API key built a client; script holds   *)
(* the outcomes of the LLM calls in call order.                            *)
(***************************************************************************)
\* "if dim.score": a score that is neither None nor 0.0
ScoreTruthy(dim) == dim.has_score /\ dim.score # 0

DimensionCodes(dims) == [i \in DOMAIN dims |-> dims[i].dimension_code]

HasMaterials(lid) == lid.status = "returned" /\ lid.list[1].materials # <<>>

\* _default_ai_insights
_default_ai_insights ==
    [primary_recommendation     |-> <<"Insufficient data for analysis">>,
     alternate_strategy         |-> <<"N/A">>,
     risk_consideration         |-> <<"N/A">>,
     project_impact             |-> <<"N/A">>,
     line_item_insights         |-> <<>>,
     split_award_recommendation |-> <<>>,
     negotiation_tips           |-> <<>>]

\* _generate_recommendations
_generate_recommendations(va, p) ==
    LET winner == va[1]
        Strength(d) == (ScoreTruthy(d) /\ d.score >= 80) \/ d.bool_value
        Strong(d)   == ScoreTruthy(d) /\ d.score >= 80
        tipAt == {i \in DOMAIN winner.dimension_scores :
                    /\ Len(va) > 1
                    /\ ScoreTruthy(winner.dimension_scores[i])
                    /\ ScoreTruthy(va[2].dimension_scores[i])
                    /\ va[2].dimension_scores[i].score
                            > winner.dimension_scores[i].score + 10}
        primary_rec ==
            [recommendation_type |-> "PRIMARY",
             vendor_name  |-> winner.vendor_name,
             summary_text |-> <<"Award contract to {winner} for optimal balance of {priority} priority.">>,
             key_benefits |->
                Take(DimensionCodes(SelectSeq(winner.dimension_scores, Strength)), 3),
             negotiation_tips |->
                [k \in DOMAIN Ascending(tipAt) |->
                    winner.dimension_scores[Ascending(tipAt)[k]].dimension_code]]
        alternate_rec ==
            [recommendation_type |-> "ALTERNATE",
             vendor_name  |-> va[2].vendor_name,
             summary_text |-> <<"If {priority} is not critical, consider {second}.">>,
             key_benefits |->
                Take(DimensionCodes(SelectSeq(va[2].dimension_scores, Strong)), 3),
             negotiation_tips |-> <<>>]
    IN  IF Len(va) > 1 THEN <<primary_rec, alternate_rec>> ELSE <<primary_rec>>

\* negotiation_tips_list of _generate_structured_insights
negotiation_tips_list(va) ==
    (IF Len(va) > 1 /\ va[1].price > va[2].price
        THEN <<"Mention {second}'s lower price: {pct}% price difference">> ELSE <<>>)
    \o (IF Len(va) > 1 /\ va[1].payment_terms_days < va[2].payment_terms_days
        THEN <<"Request {days}-day credit terms: Matching {second}'s offer">> ELSE <<>>)
    \o <<"Inquire about volume discounts: Bulk order commitment">>

\* str.lower() of a dimension code.
lower(code) ==
    CASE code = "PRICE" -> "price"
      [] code = "DELIVERY" -> "delivery"
      [] code = "PAYMENT_TERMS" -> "payment_terms"
      [] code = "VENDOR_HISTORY" -> "vendor_history"
      [] code = "QUALITY_COMP" -> "quality_comp"
      [] code = "CAPACITY" -> "capacity"
      [] OTHER -> code

\* risks of _generate_structured_insights
risks(va) ==
    LET Low(d) == ScoreTruthy(d) /\ d.score < 60
        low == SelectSeq(va[1].dimension_scores, Low)
    IN  [k \in DOMAIN low |->
            [risk |-> "Low score", dimension |-> low[k].dimension_code,
             severity |-> IF low[k].score >= 40 THEN "MEDIUM" ELSE "HIGH",
             mitigation |-> <<"Monitor", lower(low[k].dimension_code),
                              "performance closely">>]]
        \o (IF Len(va) <= 2
            THEN <<[risk |-> "Limited vendor pool (single-source dependency)",
                    dimension |-> "", severity |-> "HIGH",
                    mitigation |-> <<"Qualify backup suppliers for future RFQs">>]>>
            ELSE <<>>)
        \o (IF va[1].payment_terms_days = 0
            THEN <<[risk |-> "Advance payment impacts cash flow",
                    dimension |-> "", severity |-> "MEDIUM",
                    mitigation |-> <<"Negotiate for at least 15-day credit terms">>]>>
            ELSE <<>>)

\* One bullet line per list entry.
Bullets(items) == join_lines([k \in DOMAIN items |-> <<"bullet">>])

Insight(type, text, code, json) ==
    [insight_type |-> type, insight_text |-> text, material_code |-> code,
     insight_json |-> json]

\* _generate_structured_insights: the division by second.quoted_amount
\* raises ZeroDivisionError when that amount is 0.
_generate_structured_insights(va, p, lid) ==
    IF Len(va) > 1 /\ va[2].quoted_amount = 0
    THEN [status |-> "raised", error |-> "ZeroDivisionError", list |-> <<>>]
    ELSE
    LET body ==
            <<Insight("PRIMARY_REC", <<"{winner} is recommended as primary vendor.">>, "", <<>>)>>
            \o (IF Len(va) > 1
                THEN <<Insight("ALTERNATE", <<"Alternate option: {second}.">>, "", <<>>)>> ELSE <<>>)
            \o <<Insight("NEGOTIATION", Bullets(negotiation_tips_list(va)), "",
                         negotiation_tips_list(va))>>
            \o <<Insight("RISK", Bullets(risks(va)), "", risks(va))>>
            \o (IF Len(va) > 1
                THEN <<Insight("IMPACT", <<"Choosing {winner} ...">>, "", <<>>)>> ELSE <<>>)
            \o (IF HasMaterials(lid)
                THEN [m \in DOMAIN lid.list[1].materials |->
                        Insight("LINE_ITEM", <<"Material {code}: {vendor} recommended.">>,
                                lid.list[1].materials[m].mat_code, <<>>)]
                ELSE <<>>)
    IN  [status |-> "returned", error |-> "",
         list |-> [k \in DOMAIN body |->
                    [insight_type  |-> body[k].insight_type,
                     insight_text  |-> body[k].insight_text,
                     insight_order |-> k,
                     material_code |-> body[k].material_code,
                     insight_json  |-> body[k].insight_json]]]

\* The number of LLM calls _generate_legacy_ai_insights makes when nothing
\* raises.
LegacyCalls(va, lid) ==
    4 + (IF Len(va) > 1 THEN 1 ELSE 0) + (IF HasMaterials(lid) THEN 1 ELSE 0)

\* _generate_negotiation_tips_llm: the parse of the call's result.
fallback_tips ==
    <<<<"Leverage competitive pricing to negotiate 5% reduction">>,
      <<"Request volume discounts for bulk orders">>,
      <<"Negotiate extended payment terms for cash flow improvement">>>>

TipMinLen == 10

_generate_negotiation_tips_llm(outcome) ==
    LET result == _safe_llm_call(outcome, join_lines(fallback_tips))
        lines  == split_lines(result)
        clean  == [k \in DOMAIN lines |-> strip_numbering(strip(lines[k]))]
        Keep(line) == line # <<>> /\ TextLen(line) > TipMinLen
        tips   == SelectSeq(clean, Keep)
    IN  IF tips # <<>> THEN Take(tips, 3) ELSE fallback_tips

\* _generate_legacy_ai_insights.  used is the number of LLM calls made.
_generate_legacy_ai_insights(va, p, lid, client, script) ==
    IF ~client
    THEN [status |-> "returned", error |-> "", used |-> 0, list |-> <<_default_ai_insights>>]
    ELSE
    LET s == IF Len(va) > 1 THEN 1 ELSE 0
    IN  IF Len(va) > 1 /\ va[2].quoted_amount = 0
        THEN [status |-> "raised", error |-> "ZeroDivisionError", used |-> 2 + s,
              list |-> <<>>]
        ELSE [status |-> "returned", error |-> "", used |-> LegacyCalls(va, lid),
              list |-> <<
                [primary_recommendation |->
                    _safe_llm_call(script[1],
                        <<"{winner} is recommended as primary vendor with overall score {score}/10.">>),
                 alternate_strategy |->
                    IF Len(va) > 1
                    THEN _safe_llm_call(script[2],
                            <<"Consider {second} as backup supplier (score: {score}/10).">>)
                    ELSE <<"Single vendor option. Consider inviting more vendors for future RFQs to increase competition.">>,
                 risk_consideration |->
                    _safe_llm_call(script[2 + s],
                        <<"Primary risks: {risks}. Monitor performance and maintain backup suppliers.">>),
                 project_impact |->
                    _safe_llm_call(script[3 + s],
                        <<"Selecting {winner} provides balanced value with {score}/10 score.">>),
                 line_item_insights |->
                    IF HasMaterials(lid)
                    THEN _safe_llm_call(script[5 + s],
                            <<"Material-level analysis shows competitive pricing across line items.">>)
                    ELSE <<>>,
                 split_award_recommendation |-> <<>>,
                 negotiation_tips |-> _generate_negotiation_tips_llm(script[4 + s])]>>]

\* generate_structured_analysis
generate_structured_analysis(va, p, lid, client, script) ==
    IF va = <<>>
    THEN [status |-> "returned", error |-> "", used |-> 0,
          list |-> <<[recommendations |-> <<>>, structured_insights |-> <<>>,
                      ai_insights |-> _default_ai_insights]>>]
    ELSE
    LET ins == _generate_structured_insights(va, p, lid)
        leg == _generate_legacy_ai_insights(va, p, lid, client, script)
    IN  IF ins.status = "raised"
        THEN [status |-> "raised", error |-> ins.error, used |-> 0, list |-> <<>>]
        ELSE IF leg.status = "raised"
        THEN [status |-> "raised", error |-> leg.error, used |-> leg.used, list |-> <<>>]
        ELSE [status |-> "returned", error |-> "", used |-> leg.used,
              list |-> <<[recommendations |-> _generate_recommendations(va, p),
                          structured_insights |-> ins.list,
                          ai_insights |-> leg.list[1]]>>]

(***************************************************************************)
(* AIInsightsEngine (the basic engine).                                    *)
(***************************************************************************)
\* response.choices[0].message.content.strip() succeeds
basic_call_ok(outcome) ==
    outcome.kind = "response" /\ outcome.choices > 0 /\ outcome.has_content

\* _default_insights: the division by second.price raises ZeroDivisionError
\* when that price is 0.
_default_insights(ranking, p) ==
    IF ranking = <<>>
    THEN [status |-> "returned", error |-> "",
          list |-> <<[primary_recommendation |-> <<"No vendors to compare">>,
                      alternate_strategy     |-> <<"Insufficient data for alternate strategy">>,
                      risk_consideration     |-> <<"No risk analysis available">>,
                      project_impact         |-> <<"No project impact data">>,
                      line_item_insights     |-> <<>>,
                      split_award_recommendation |-> <<>>,
                      negotiation_tips       |-> <<>>]>>]
    ELSE IF Len(ranking) > 1 /\ ranking[2].price = 0
    THEN [status |-> "raised", error |-> "ZeroDivisionError", list |-> <<>>]
    ELSE
    LET winner == ranking[1]
        diff == IF Len(ranking) > 1 THEN winner.price - ranking[2].price ELSE 0
        abs  == IF diff < 0 THEN 0 - diff ELSE diff
        tips ==
            (IF Len(ranking) > 1 /\ winner.price > ranking[2].price
                THEN <<<<"Leverage {second}'s lower price to negotiate {diff} reduction per unit">>>>
                ELSE <<>>)
            \o (IF Len(ranking) > 1 /\ winner.payment_terms_days < ranking[2].payment_terms_days
                THEN <<<<"Request {days}-day credit terms matching {second}'s offer">>>>
                ELSE <<>>)
            \o (IF Len(ranking) > 1 /\ winner.delivery_days > ranking[2].delivery_days
                THEN <<<<"Negotiate for {days}-day delivery to match {second}'s timeline">>>>
                ELSE <<>>)
            \o <<<<"Inquire about volume discounts for orders exceeding current quantity by 20%+">>,
                 <<"Request firm price validity for 90 days to allow for approval cycles">>>>
    IN  [status |-> "returned", error |-> "",
         list |-> <<[primary_recommendation |->
                        <<"{winner} offers the best balance of price, delivery window, and payment terms for this procurement.",
                          "\n", "\n",
                          "*Note: AI-powered insights unavailable.*">>,
                     alternate_strategy |->
                        IF Len(ranking) > 1
                        THEN <<"Consider a split award strategy: Use {winner} as primary supplier.">>
                        ELSE <<"No alternate strategy available. Consider inviting additional vendors.">>,
                     risk_consideration |->
                        IF winner.payment_terms_days = 0
                        THEN <<"Advance payment requirement for {winner} may impact cash flow and working capital.">>
                        ELSE IF winner.payment_terms_days > 45
                        THEN <<"Extended payment terms of {days} days may indicate vendor cash flow concerns.">>
                        ELSE <<"{winner} shows {categories}. Standard payment terms of {days} days align with industry practice.">>,
                     project_impact |->
                        IF Len(ranking) > 1
                        THEN IF abs * 100 > 5 * ranking[2].price
                             THEN <<"Choosing {winner} changes total procurement cost by approximately {pct}%.">>
                             ELSE <<"Choosing {winner} maintains cost neutrality (within 5% of alternatives).">>
                        ELSE <<"Choosing {winner} as the sole supplier provides pricing certainty.">>,
                     line_item_insights |-> <<>>,
                     split_award_recommendation |-> <<>>,
                     negotiation_tips |-> Take(tips, 3)]>>]

\* _generate_negotiation_tips of the basic engine (no LLM call).
_generate_negotiation_tips(ranking) ==
    IF Len(ranking) < 2
    THEN <<<<"Consider requesting quotes from additional vendors">>>>
    ELSE Take(
            (IF ranking[1].price > ranking[2].price
                THEN <<<<"Mention {second}'s lower price to negotiate {pct}% reduction">>>> ELSE <<>>)
            \o (IF ranking[1].payment_terms_days < ranking[2].payment_terms_days
                THEN <<<<"Request {days} days credit matching {second}'s terms">>>> ELSE <<>>)
            \o (IF ranking[1].delivery_days > ranking[2].delivery_days
                THEN <<<<"Ask for {days}-day delivery to match {second}'s timeline">>>> ELSE <<>>)
            \o <<<<"Inquire about volume discounts for bulk orders or long-term contracts">>>>, 3)

\* The number of LLM calls generate_insights makes when every call succeeds.
BasicCalls(ranking) == 3 + (IF Len(ranking) > 1 THEN 1 ELSE 0)

\* generate_insights: any exception inside the try block (a failed call, a
\* response without choices, content None, second.price = 0) falls back to
\* _default_insights.  used is the number of LLM calls made.
generate_insights(ranking, p, client, script) ==
    IF ~client \/ ranking = <<>>
    THEN [d \in {"used"} \cup DOMAIN _default_insights(ranking, p) |->
            IF d = "used" THEN 0 ELSE _default_insights(ranking, p)[d]]
    ELSE
    LET s == IF Len(ranking) > 1 THEN 1 ELSE 0
        failing == {k \in 1..(2 + s) : ~basic_call_ok(script[k])}
        used == IF failing # {} THEN SetMin(failing)
                ELSE IF Len(ranking) > 1 /\ ranking[2].price = 0 THEN 2 + s
                ELSE 3 + s
        ok == /\ failing = {}
              /\ ~(Len(ranking) > 1 /\ ranking[2].price = 0)
              /\ basic_call_ok(script[3 + s])
    IN  IF ok
        THEN [status |-> "returned", error |-> "", used |-> used,
              list |-> <<[primary_recommendation |-> strip(script[1].content),
                          alternate_strategy |->
                            IF Len(ranking) > 1 THEN strip(script[2].content)
                            ELSE <<"No alternate strategy available with single vendor.">>,
                          risk_consideration |-> strip(script[2 + s].content),
                          project_impact     |-> strip(script[3 + s].content),
                          line_item_insights |-> <<>>,
                          split_award_recommendation |-> <<>>,
                          negotiation_tips   |-> _generate_negotiation_tips(ranking)]>>]
        ELSE [d \in {"used"} \cup DOMAIN _default_insights(ranking, p) |->
                IF d = "used" THEN used ELSE _default_insights(ranking, p)[d]]

(***************************************************************************)
(* SpecAI: a vendor pool is ranked, then one of the two insight engines    *)
(* runs on the ranking.  Pools are as the handlers build them: every       *)
(* vendor without materials (manual entry) or every vendor with its        *)
(* quoted material (from the quotation store).                             *)
(***************************************************************************)
MaxAIVendors == 2

\* The vendors the pools are drawn from, in the order they are entered.
AIVendors ==
    <<[vendor_name |-> "X", price |-> 100, payment_terms_days |-> 30, delivery_days |-> 5],
      [vendor_name |-> "Y", price |-> 120, payment_terms_days |-> 0, delivery_days |-> 5],
      [vendor_name |-> "Z", price |-> 100, payment_terms_days |-> 0, delivery_days |-> 10]>>

AIPools ==
    {[i \in DOMAIN Ascending(S) |->
        [vendor_name        |-> AIVendors[Ascending(S)[i]].vendor_name,
         price              |-> AIVendors[Ascending(S)[i]].price,
         payment_terms_days |-> AIVendors[Ascending(S)[i]].payment_terms_days,
         delivery_days      |-> AIVendors[Ascending(S)[i]].delivery_days,
         materials          |-> IF manual THEN <<>>
                                ELSE <<[price |-> AIVendors[Ascending(S)[i]].price,
                                        qty |-> 1]>>]] :
        S \in {T \in SUBSET DOMAIN AIVendors : Cardinality(T) <= MaxAIVendors},
        manual \in BOOLEAN}

Scripts(n) == [1..n -> LLMOutcomes]

InitAI ==
    /\ handlers = <<>>
    /\ engines = <<>>
    /\ priority \in PriorityType
    /\ vendors_data \in AIPools
    /\ llm \in [client : BOOLEAN, outcomes : {<<>>}]
    /\ results = NoResult
    /\ ai = NoResult
    /\ raw_data = <<>>
    /\ line_item_data = NoResult
    /\ request = <<>>
    /\ response = NoResult
    /\ calls = <<>>
    /\ db = <<>>

\* The enhanced engine runs on the ranking.
GenerateStructuredAnalysis ==
    /\ ai.status = "none"
    /\ results.status = "returned"
    /\ LET va == results.list
           n  == IF llm.client /\ va # <<>> /\ ~(Len(va) > 1 /\ va[2].quoted_amount = 0)
                 THEN LegacyCalls(va, line_item_data) ELSE 0
       IN  \E script \in Scripts(n) :
             \E r \in {generate_structured_analysis(va, priority, line_item_data,
                                                     llm.client, script)} :
                 /\ ai' = [status |-> r.status, error |-> r.error,
                           engine |-> "enhanced", list |-> r.list]
                 /\ llm' = [llm EXCEPT !.outcomes = SubSeq(script, 1, r.used)]
    /\ UNCHANGED <<rankVars, lineVars, apiVars, concVars>>

\* The basic engine runs on the ranking.
GenerateInsights ==
    /\ ai.status = "none"
    /\ results.status = "returned"
    /\ LET ranking == results.list
           n == IF llm.client /\ ranking # <<>> THEN BasicCalls(ranking) ELSE 0
       IN  \E script \in Scripts(n) :
             \E r \in {generate_insights(ranking, priority, llm.client, script)} :
                 /\ ai' = [status |-> r.status, error |-> r.error,
                           engine |-> "basic", list |-> r.list]
                 /\ llm' = [llm EXCEPT !.outcomes = SubSeq(script, 1, r.used)]
    /\ UNCHANGED <<rankVars, lineVars, apiVars, concVars>>

NextAI == RankVendors \/ GenerateStructuredAnalysis \/ GenerateInsights

SpecAI == InitAI /\ [][NextAI]_vars

(***************************************************************************)
(* VendorQuotationDB (the gateway to the quotation store).  db says what   *)
(* the store will do: db.fetch, db.diagnose and db.test are "ok" or the    *)
(* failure of that operation's own connection or query; the counts are     *)
(* what the counting queries of the diagnosis return.                      *)
(***************************************************************************)
\* VendorQuotationDB._map_payment_term: 3-digit codes only.
Gateway_map_payment_term(code) ==
    CASE code = "000" -> 0  [] code = "015" -> 15 [] code = "030" -> 30
      [] code = "060" -> 60 [] code = "090" -> 90
      [] OTHER -> 0

\* round(num / den, 2) of an amount in units of 0.002.
RoundMoney(num, den) == 5 * RoundHalfEven(num, 5 * den)

\* transform_to_comparison_format with the plain mean of the unit prices.
transform_to_comparison_format_plain_mean(raw) ==
    LET names == [i \in DOMAIN raw |-> raw[i].VENDOR_NAME]
        first == FirstPositions(names)
    IN  [v \in DOMAIN first |->
            LET name == names[first[v]]
                OfVendor(r) == r.VENDOR_NAME = name
                rows == SelectSeq(raw, OfVendor)
                total_value == SumSeq([k \in DOMAIN rows |-> rows[k].BASIC_PRICE])
                total_qty   == SumSeq([k \in DOMAIN rows |-> rows[k].QTY])
            IN  [vendor_name        |-> name,
                 price              |-> IF total_qty > 0
                                        THEN RoundMoney(total_value, Len(rows)) ELSE 0,
                 payment_terms_days |-> Gateway_map_payment_term(raw[first[v]].PAY_TERM),
                 delivery_days      |-> raw[first[v]].DELIVERY_DAYS,
                 materials          |-> [k \in DOMAIN rows |->
                                            [mat_code |-> rows[k].MAT_CODE,
                                             price    |-> rows[k].BASIC_PRICE,
                                             qty      |-> rows[k].QTY]]]]

\* transform_to_comparison_format: one record per vendor in order of first
\* appearance; terms and delivery from the vendor's first row; price the
\* quantity-weighted average, rounded to 2 decimals.
transform_to_comparison_format(raw) ==
    LET names == [i \in DOMAIN raw |-> raw[i].VENDOR_NAME]
        first == FirstPositions(names)
    IN  [v \in DOMAIN first |->
            LET name == names[first[v]]
                OfVendor(r) == r.VENDOR_NAME = name
                rows == SelectSeq(raw, OfVendor)
                total_value == SumSeq([k \in DOMAIN rows |-> rows[k].BASIC_PRICE * rows[k].QTY])
                total_qty   == SumSeq([k \in DOMAIN rows |-> rows[k].QTY])
            IN  [vendor_name        |-> name,
                 price              |-> IF total_qty > 0
                                        THEN RoundMoney(total_value, total_qty) ELSE 0,
                 payment_terms_days |-> Gateway_map_payment_term(raw[first[v]].PAY_TERM),
                 delivery_days      |-> raw[first[v]].DELIVERY_DAYS,
                 materials          |-> [k \in DOMAIN rows |->
                                            [mat_code |-> rows[k].MAT_CODE,
                                             price    |-> rows[k].BASIC_PRICE,
                                             qty      |-> rows[k].QTY]]]]

\* fetch_vendor_quotations: the rows, or Exception("Database error: ...").
fetch_vendor_quotations(database, rows) ==
    IF database.fetch = "ok"
    THEN [status |-> "returned", error |-> "", list |-> rows]
    ELSE [status |-> "raised", error |-> "Exception", list |-> <<>>]

\* test_connection: every failure is caught and reported as False.
test_connection(database) ==
    [status |-> "returned", error |-> "", value |-> database.test = "ok"]

diagnose_missing_quotations_by_line_count(database, rfq_no, plant_code) ==
    IF database.diagnose # "ok"
    THEN [rfq_no |-> rfq_no, plant_code |-> plant_code,
          error |-> database.diagnose, diagnostic_failed |-> TRUE]
    ELSE
    LET rfq_exists_in_header == database.line_count > 0
        has_line_items       == database.line_count > 0
        join_successful      == database.join_count > 0
        reasons ==
            (IF ~rfq_exists_in_header
                THEN <<"RFQ does not exist in system for plant">> ELSE <<>>)
            \o (IF rfq_exists_in_header /\ ~has_line_items
                THEN <<"RFQ exists but has no line items">> ELSE <<>>)
            \o (IF rfq_exists_in_header /\ has_line_items /\ ~join_successful
                THEN <<"Data mismatch between header and line items (FYEAR or DOC_NO mismatch)">>
                ELSE <<>>)
            \o (IF database.header_count = 0
                THEN <<"No vendors have submitted quotations yet">> ELSE <<>>)
        actions ==
            (IF ~rfq_exists_in_header THEN <<"Verify RFQ number is correct">> ELSE <<>>)
            \o (IF rfq_exists_in_header /\ ~has_line_items
                THEN <<"Contact administrator to add materials to RFQ">> ELSE <<>>)
            \o (IF rfq_exists_in_header /\ has_line_items /\ ~join_successful
                THEN <<"Contact database administrator to fix data integrity">> ELSE <<>>)
            \o (IF database.header_count = 0
                THEN <<"Wait for vendors to submit quotations">> ELSE <<>>)
    IN  [rfq_no |-> rfq_no, plant_code |-> plant_code,
         checks |-> [rfq_exists_in_header   |-> rfq_exists_in_header,
                     vendor_count_in_header |-> database.header_count,
                     has_line_items         |-> has_line_items,
                     line_item_count        |-> database.line_count,
                     vendors_in_header      |-> [k \in 1..database.header_count |-> "vendor"],
                     materials              |-> [k \in 1..database.line_count |-> "material"],
                     join_successful        |-> join_successful,
                     joined_records         |-> database.join_count],
         possible_reasons |-> reasons,
         action_required  |-> actions]

\* diagnose_missing_quotations: every failure is caught and reported in the
\* record.  A list the code leaves out of checks (its count is 0) is the
\* empty list here.
diagnose_missing_quotations(database, rfq_no, plant_code) ==
    IF database.diagnose # "ok"
    THEN [rfq_no |-> rfq_no, plant_code |-> plant_code,
          error |-> database.diagnose, diagnostic_failed |-> TRUE]
    ELSE
    LET rfq_exists_in_header == database.header_count > 0
        has_line_items       == database.line_count > 0
        join_successful      == database.join_count > 0
        reasons ==
            (IF ~rfq_exists_in_header
                THEN <<"RFQ does not exist in system for plant">> ELSE <<>>)
            \o (IF rfq_exists_in_header /\ ~has_line_items
                THEN <<"RFQ exists but has no line items">> ELSE <<>>)
            \o (IF rfq_exists_in_header /\ has_line_items /\ ~join_successful
                THEN <<"Data mismatch between header and line items (FYEAR or DOC_NO mismatch)">>
                ELSE <<>>)
            \o (IF database.header_count = 0
                THEN <<"No vendors have submitted quotations yet">> ELSE <<>>)
        actions ==
            (IF ~rfq_exists_in_header THEN <<"Verify RFQ number is correct">> ELSE <<>>)
            \o (IF rfq_exists_in_header /\ ~has_line_items
                THEN <<"Contact administrator to add materials to RFQ">> ELSE <<>>)
            \o (IF rfq_exists_in_header /\ has_line_items /\ ~join_successful
                THEN <<"Contact database administrator to fix data integrity">> ELSE <<>>)
            \o (IF database.header_count = 0
                THEN <<"Wait for vendors to submit quotations">> ELSE <<>>)
    IN  [rfq_no |-> rfq_no, plant_code |-> plant_code,
         checks |-> [rfq_exists_in_header   |-> rfq_exists_in_header,
                     vendor_count_in_header |-> database.header_count,
                     has_line_items         |-> has_line_items,
                     line_item_count        |-> database.line_count,
                     vendors_in_header      |-> [k \in 1..database.header_count |-> "vendor"],
                     materials              |-> [k \in 1..database.line_count |-> "material"],
                     join_successful        |-> join_successful,
                     joined_records         |-> database.join_count],
         possible_reasons |-> reasons,
         action_required  |-> actions]

(***************************************************************************)
(* The HTTP API (main_api.py).  A handler's try block ends by returning a  *)
(* body or raising; its except clauses turn that into the response.        *)
(***************************************************************************)
NoCalls == [fetch |-> 0, diagnose |-> 0, rank |-> 0, line |-> 0, insight |-> 0, test |-> 0]

Returned(body) ==
    [status |-> "returned", kind |-> "", code |-> 200, error |-> "", list |-> <<body>>]

Raised(kind, code, error, detail) ==
    [status |-> "raised", kind |-> kind, code |-> code, error |-> error, list |-> detail]

\* ComparisonResponse(**kwargs): the declared fields are kept, other keywords
\* are ignored, a missing required field is a ValidationError.
ComparisonResponseFields ==
    {"rfq_no", "plant_code", "priority", "ranking", "line_item_analysis",
     "ai_insights", "metadata"}

ComparisonResponseRequired == {"priority", "ranking", "ai_insights"}

ComparisonResponse(kwargs) ==
    IF ComparisonResponseRequired \subseteq DOMAIN kwargs
    THEN Returned([f \in DOMAIN kwargs \cap ComparisonResponseFields |-> kwargs[f]])
    ELSE Raised("Exception", 0, "ValidationError", <<>>)

analyze_rfq_except_generic(outcome) ==
    IF outcome.status = "returned"
    THEN [status |-> "sent", code |-> 200, error |-> "", list |-> outcome.list]
    ELSE [status |-> "sent", code |-> 500, error |-> outcome.error, list |-> <<>>]

\* The except clauses of analyze_rfq: an HTTPException is re-raised as it
\* is, any other exception becomes a 500 "Analysis failed: ...".
analyze_rfq_except(outcome) ==
    IF outcome.status = "returned"
    THEN [status |-> "sent", code |-> 200, error |-> "", list |-> outcome.list]
    ELSE IF outcome.kind = "HTTPException"
    THEN [status |-> "sent", code |-> outcome.code, error |-> outcome.error,
          list |-> outcome.list]
    ELSE [status |-> "sent", code |-> 500, error |-> outcome.error, list |-> <<>>]

\* The request models.  A request carries its parsed fields and ill_typed,
\* the names of the body's fields that are absent without a default or that
\* cannot be coerced to the declared type (such a field's parsed value is a
\* placeholder that is never read).
\* AnalyzeRFQRequest: rfq_no is a required str with no length constraint,
\* plant_code a required int, priority a PriorityType with a default.
AnalyzeRFQRequest(req) ==
    /\ req.ill_typed \cap {"rfq_no", "plant_code", "priority"} = {}
    /\ req.priority \in PriorityType

\* ManualVendorEntry: the four fields are required.
ManualVendorEntry(req) ==
    req.ill_typed \cap {"vendor_name", "price", "payment_terms_days",
                        "delivery_days"} = {}

\* AnalyzeManualRequest: vendors needs at least 2 valid items, priority is a
\* PriorityType with a default.
AnalyzeManualRequest(req) ==
    /\ Len(req.vendors) >= 2
    /\ ManualVendorEntry(req)
    /\ "priority" \notin req.ill_typed
    /\ req.priority \in PriorityType

\* The except clause of analyze_manual: every exception becomes a 500.
analyze_manual_except(outcome) ==
    IF outcome.status = "returned"
    THEN [status |-> "sent", code |-> 200, error |-> "", list |-> outcome.list]
    ELSE [status |-> "sent", code |-> 500, error |-> outcome.error, list |-> <<>>]

\* health_check: 200 with the flag test_connection returned; 503 only when
\* test_connection itself raises.
health_check(database) ==
    LET t == test_connection(database)
    IN  IF t.status = "raised"
        THEN [status |-> "sent", code |-> 503, error |-> t.error,
              list |-> <<[status |-> "unhealthy", database |-> "error"]>>]
        ELSE [status |-> "sent", code |-> 200, error |-> "",
              list |-> <<[status   |-> IF t.value THEN "healthy" ELSE "unhealthy",
                          database |-> IF t.value THEN "connected" ELSE "disconnected"]>>]

(***************************************************************************)
(* SpecApi: one request is served.  raw_data is what the store holds for   *)
(* the requested RFQ, db how the store behaves, llm whether a client was   *)
(* built; the LLM answers every call of one request the same way.          *)
(***************************************************************************)
ApiPrices == {50, 60}

\* Every vendor's quotation header in the store.
ApiProfiles ==
    {[v \in LineVendors |->
        IF v = "X" THEN [PAY_TERM |-> "02", DELIVERY_DAYS |-> 5]
                   ELSE [PAY_TERM |-> "000", DELIVERY_DAYS |-> 10]]}

ApiRawData == RawData(ApiPrices, {1}, ApiProfiles)

Counts == {0, 2}

\* The behaviours of the store: any operation can fail; the diagnosis is
\* only of interest when the RFQ has no rows.
Stores(rows) ==
    IF rows = <<>>
    THEN {d \in [fetch : {"ok", "error"}, diagnose : {"ok", "error"}, test : {"ok"},
                 header_count : Counts, line_count : Counts, join_count : Counts] :
            d.join_count > 0 => (d.header_count > 0 /\ d.line_count > 0)}
    ELSE [fetch : {"ok", "error"}, diagnose : {"ok"}, test : {"ok"},
          header_count : {2}, line_count : {2}, join_count : {2}]

HealthStores ==
    [fetch : {"ok"}, diagnose : {"ok"}, test : {"ok", "connect_error", "query_error"},
     header_count : {0}, line_count : {0}, join_count : {0}]

\* The vendor lists of a manual request: any selection of the catalogue.
ManualEntries ==
    {[i \in DOMAIN Ascending(S) |-> AIVendors[Ascending(S)[i]]] :
        S \in {T \in SUBSET DOMAIN AIVendors : Cardinality(T) <= MaxAIVendors}}

\* The analyze requests: for the RFQ the store knows under every priority,
\* with an empty rfq_no, and with one field absent or of the wrong type.
AnalyzeRequests ==
    [kind : {"analyze"}, rfq_no : {"RFQ-1"}, plant_code : {1100},
     priority : PriorityType, vendors : {<<>>}, ill_typed : {{}}]
    \cup
    [kind : {"analyze"}, rfq_no : {""}, plant_code : {1100},
     priority : {"balanced"}, vendors : {<<>>}, ill_typed : {{}}]
    \cup
    [kind : {"analyze"}, rfq_no : {"RFQ-1"}, plant_code : {1100},
     priority : {"balanced"}, vendors : {<<>>},
     ill_typed : {{"rfq_no"}, {"plant_code"}, {"priority"}}]

\* The manual requests: every vendor list under every priority, and a list
\* of two with one field of an entry absent.
ManualRequests ==
    [kind : {"manual"}, rfq_no : {""}, plant_code : {0},
     priority : PriorityType, vendors : ManualEntries, ill_typed : {{}}]
    \cup
    [kind : {"manual"}, rfq_no : {""}, plant_code : {0},
     priority : {"balanced"}, vendors : {SubSeq(AIVendors, 1, 2)},
     ill_typed : {{"vendor_name"}, {"price"}, {"payment_terms_days"},
                  {"delivery_days"}}]

HealthRequests ==
    [kind : {"health"}, rfq_no : {""}, plant_code : {0},
     priority : {"balanced"}, vendors : {<<>>}, ill_typed : {{}}]

InitApi ==
    /\ handlers = <<>>
    /\ engines = <<>>
    /\ request \in AnalyzeRequests \cup ManualRequests \cup HealthRequests
    /\ priority = request.priority
    /\ raw_data \in IF request.kind = "analyze" /\ request.rfq_no = "RFQ-1"
                       /\ request.ill_typed = {}
                    THEN ApiRawData ELSE {<<>>}
    /\ db \in IF request.kind = "analyze" THEN Stores(raw_data) ELSE HealthStores
    /\ (request.rfq_no = "" \/ request.ill_typed # {}) =>
            (db.header_count = 0 /\ db.line_count = 0)
    /\ request.kind # "health" => db.test = "ok"
    /\ llm \in [client : IF request.kind = "health" THEN {FALSE} ELSE BOOLEAN,
                outcomes : {<<>>}]
    /\ vendors_data = <<>>
    /\ results = NoResult
    /\ line_item_data = NoResult
    /\ ai = NoResult
    /\ response = NoResult
    /\ calls = NoCalls

\* The scripts of one request: every call has the same outcome.
UniformScripts == {[k \in 1..6 |-> outcome] : outcome \in LLMOutcomes}

\* The scripts a request can meet: none without a client.
RequestScripts ==
    IF llm.client THEN UniformScripts
    ELSE {[k \in 1..6 |-> CHOOSE outcome \in LLMOutcomes : TRUE]}

\* What a handler leaves in the state when it has answered.
Serve(resp, vd, r, lid, insights, outcomes, made) ==
    /\ response' = resp
    /\ vendors_data' = vd
    /\ results' = r
    /\ line_item_data' = lid
    /\ ai' = insights
    /\ llm' = [llm EXCEPT !.outcomes = outcomes]
    /\ calls' = made
    /\ UNCHANGED <<priority, raw_data, request, db, concVars>>

\* POST /api/vendor-comparison/analyze: a request that fails the request
\* model is answered 422 before the handler runs.  Each step of the try block
\* is taken in the handler's order; a step that raises ends the block, and
\* the except clauses make the response.
AnalyzeRfq ==
    /\ request.kind = "analyze"
    /\ response.status = "none"
    /\ IF ~AnalyzeRFQRequest(request)
       THEN Serve([status |-> "sent", code |-> 422,
                   error |-> "RequestValidationError", list |-> <<>>],
                  <<>>, NoResult, NoResult, NoResult, <<>>, NoCalls)
       ELSE
       \E fetched \in {fetch_vendor_quotations(db, raw_data)} :
       IF fetched.status = "raised"
       THEN Serve(analyze_rfq_except(Raised("Exception", 0, fetched.error, <<>>)),
                  <<>>, NoResult, NoResult, NoResult, <<>>,
                  [NoCalls EXCEPT !.fetch = 1])
       ELSE IF fetched.list = <<>>
       THEN \E diagnostics \in {diagnose_missing_quotations(db, request.rfq_no,
                                                            request.plant_code)} :
            Serve(analyze_rfq_except(
                    Raised("HTTPException", 404, "No Vendor Quotations Found",
                           <<[error       |-> "No Vendor Quotations Found",
                              rfq_no      |-> request.rfq_no,
                              plant_code  |-> request.plant_code,
                              diagnostics |-> diagnostics]>>)),
                  <<>>, NoResult, NoResult, NoResult, <<>>,
                  [NoCalls EXCEPT !.fetch = 1, !.diagnose = 1])
       ELSE
       \E vd \in {transform_to_comparison_format(fetched.list)} :
       \E o \in SortOrders(vd, request.priority) :
       \E ov \in OverallScores(vd, request.priority) :
       \E r \in {rank_vendors(vd, request.priority, o, ov)} :
       IF r.status = "raised"
       THEN Serve(analyze_rfq_except(Raised("Exception", 0, r.error, <<>>)),
                  vd, r, NoResult, NoResult, <<>>,
                  [NoCalls EXCEPT !.fetch = 1, !.rank = 1])
       ELSE
       \E grouped \in {_group_by_material(fetched.list)} :
       \E os \in AnalysisOrders(grouped, request.priority, Len(grouped)) :
       \E ma \in {material_analysis(fetched.list, request.priority, os)} :
       \E best_single \in best_singles(ma) :
       \E lid \in {[status |-> "returned", error |-> "",
                    list |-> <<analyze_materials(fetched.list, request.priority,
                                                 os, best_single)>>]} :
       \E script \in RequestScripts :
       \E g \in {generate_structured_analysis(r.list, request.priority, lid,
                                              llm.client, script)} :
       \E insights \in {[status |-> g.status, error |-> g.error,
                         engine |-> "enhanced", list |-> g.list]} :
       \E made \in {[NoCalls EXCEPT !.fetch = 1, !.rank = 1, !.line = 1,
                                    !.insight = 1]} :
       IF g.status = "raised"
       THEN Serve(analyze_rfq_except(Raised("Exception", 0, g.error, <<>>)),
                  vd, r, lid, insights, SubSeq(script, 1, g.used), made)
       ELSE Serve(analyze_rfq_except(ComparisonResponse(
                    [rfq_no              |-> request.rfq_no,
                     plant_code          |-> request.plant_code,
                     priority            |-> request.priority,
                     vendor_analysis     |-> r.list,
                     recommendations     |-> g.list[1].recommendations,
                     structured_insights |-> g.list[1].structured_insights,
                     line_item_analysis  |-> lid.list[1],
                     ai_insights         |-> g.list[1].ai_insights,
                     metadata            |->
                        [total_vendors   |-> Len(vd),
                         total_materials |-> Len(lid.list[1].materials)]])),
                  vd, r, lid, insights, SubSeq(script, 1, g.used), made)

\* POST /api/vendor-comparison/analyze-manual: a request that fails the
\* request model is answered 422 before the handler runs.
AnalyzeManual ==
    /\ request.kind = "manual"
    /\ response.status = "none"
    /\ IF ~AnalyzeManualRequest(request)
       THEN Serve([status |-> "sent", code |-> 422,
                   error |-> "RequestValidationError", list |-> <<>>],
                  <<>>, NoResult, NoResult, NoResult, <<>>, NoCalls)
       ELSE
       \E vd \in {[i \in DOMAIN request.vendors |->
                    [vendor_name        |-> request.vendors[i].vendor_name,
                     price              |-> request.vendors[i].price,
                     payment_terms_days |-> request.vendors[i].payment_terms_days,
                     delivery_days      |-> request.vendors[i].delivery_days,
                     materials          |-> <<>>]]} :
       \E o \in SortOrders(vd, request.priority) :
       \E ov \in OverallScores(vd, request.priority) :
       \E r \in {rank_vendors(vd, request.priority, o, ov)} :
       IF r.status = "raised"
       THEN Serve(analyze_manual_except(Raised("Exception", 0, r.error, <<>>)),
                  vd, r, NoResult, NoResult, <<>>, [NoCalls EXCEPT !.rank = 1])
       ELSE
       \E script \in RequestScripts :
       \E g \in {generate_structured_analysis(r.list, request.priority, NoResult,
                                              llm.client, script)} :
       \E insights \in {[status |-> g.status, error |-> g.error,
                         engine |-> "enhanced", list |-> g.list]} :
       \E made \in {[NoCalls EXCEPT !.rank = 1, !.insight = 1]} :
       IF g.status = "raised"
       THEN Serve(analyze_manual_except(Raised("Exception", 0, g.error, <<>>)),
                  vd, r, NoResult, insights, SubSeq(script, 1, g.used), made)
       ELSE Serve(analyze_manual_except(ComparisonResponse(
                    [priority            |-> request.priority,
                     vendor_analysis     |-> r.list,
                     recommendations     |-> g.list[1].recommendations,
                     structured_insights |-> g.list[1].structured_insights,
                     ai_insights         |-> g.list[1].ai_insights,
                     metadata            |-> [total_vendors |-> Len(vd),
                                              source        |-> "manual_entry"]])),
                  vd, r, NoResult, insights, SubSeq(script, 1, g.used), made)

\* GET /health
HealthCheck ==
    /\ request.kind = "health"
    /\ response.status = "none"
    /\ response' = health_check(db)
    /\ calls' = [calls EXCEPT !.test = 1]
    /\ UNCHANGED <<rankVars, lineVars, aiVars, request, db, concVars>>

NextApi == AnalyzeRfq \/ AnalyzeManual \/ HealthCheck

SpecApi == InitApi /\ [][NextApi]_vars

(***************************************************************************)
(* SpecTerms: the rows of two vendors quoting one material, each vendor    *)
(* with any payment-term code, go through the gateway's transformation and *)
(* through the line-item engine.                                           *)
(***************************************************************************)
\* The codes of the two tables, and codes of neither: 3 digits, 2 digits,
\* days written out, the empty code.
TermCodes ==
    {"000", "015", "030", "060", "090", "00", "01", "02", "03", "04", "05",
     "045", "06", "30", ""}

TermRows ==
    {<<[VENDOR_NAME |-> "X", PAY_TERM |-> cx, DELIVERY_DAYS |-> 5,
        MAT_CODE |-> 1, BASIC_PRICE |-> 10, QTY |-> 1],
       [VENDOR_NAME |-> "Y", PAY_TERM |-> cy, DELIVERY_DAYS |-> 10,
        MAT_CODE |-> 1, BASIC_PRICE |-> 12, QTY |-> 1]>> :
        cx \in TermCodes, cy \in TermCodes}

InitTerms ==
    /\ handlers = <<>>
    /\ engines = <<>>
    /\ priority = "balanced"
    /\ raw_data \in TermRows
    /\ line_item_data = NoResult
    /\ vendors_data = <<>>
    /\ results = NoResult
    /\ llm = <<>>
    /\ ai = NoResult
    /\ request = <<>>
    /\ response = NoResult
    /\ calls = <<>>
    /\ db = <<>>

TransformToComparisonFormat ==
    /\ vendors_data = <<>>
    /\ vendors_data' = transform_to_comparison_format(raw_data)
    /\ UNCHANGED <<priority, results, lineVars, aiVars, apiVars, concVars>>

NextTerms == TransformToComparisonFormat \/ AnalyzeMaterials

SpecTerms == InitTerms /\ [][NextTerms]_vars

(***************************************************************************)
(* SpecConn: one call of VendorQuotationDB.get_connection, one loop        *)
(* iteration per step.  db is the host (the drivers that can be loaded,    *)
(* whether the server answers), calls the attempts made so far, results    *)
(* what the call returned or raised.                                       *)
(***************************************************************************)
RuntimeDriverPath ==
    "/tmp/odbc_driver/opt/microsoft/msodbcsql17/lib64/libmsodbcsql-17.10.so.5.1"

driver_paths ==
    <<RuntimeDriverPath, "ODBC Driver 17 for SQL Server",
      "ODBC Driver 18 for SQL Server", "ODBC Driver 13 for SQL Server">>

\* The DRIVER= of the connection string built for a list entry: the entry
\* itself for a file path, the fixed Driver 17 name for every driver name.
connection_string(driver) ==
    IF driver = RuntimeDriverPath THEN driver ELSE "ODBC Driver 17 for SQL Server"

\* pyodbc.connect(connection_string, timeout=10) on the host: the connection,
\* or a pyodbc.Error (IM002: the driver cannot be loaded; 08001: the server
\* does not answer).
pyodbc_connect(host, driver) ==
    IF driver \notin host.usable
    THEN [status |-> "raised", error |-> <<"IM002", driver>>]
    ELSE IF host.server = "down"
    THEN [status |-> "raised", error |-> <<"08001", driver>>]
    ELSE [status |-> "returned", error |-> <<>>]

Hosts == [usable : SUBSET Range(driver_paths), server : {"up", "down"}]

InitConn ==
    /\ handlers = <<>>
    /\ engines = <<>>
    /\ db \in Hosts
    /\ calls = <<>>
    /\ results = NoResult
    /\ priority = "balanced"
    /\ vendors_data = <<>>
    /\ raw_data = <<>>
    /\ line_item_data = NoResult
    /\ llm = <<>>
    /\ ai = NoResult
    /\ request = <<>>
    /\ response = NoResult

\* One iteration of the for loop: the next entry is tried; on success the
\* connection is returned, on pyodbc.Error the error is kept and the loop
\* goes on.
TryDriver ==
    /\ results.status = "none"
    /\ Len(calls) < Len(driver_paths)
    /\ \E driver \in {driver_paths[Len(calls) + 1]} :
       \E conn \in {pyodbc_connect(db, connection_string(driver))} :
          /\ calls' = Append(calls, [driver            |-> driver,
                                     connection_string |-> connection_string(driver),
                                     status            |-> conn.status,
                                     error             |-> conn.error])
          /\ results' = IF conn.status = "returned"
                        THEN [status |-> "returned", error |-> "",
                              list |-> <<connection_string(driver)>>]
                        ELSE results
    /\ UNCHANGED <<priority, vendors_data, lineVars, aiVars, request, response, db, concVars>>

\* After the loop: Exception("Could not connect with any ODBC driver. Last
\* error: ...") with the last error kept.
RaiseNoDriver ==
    /\ results.status = "none"
    /\ Len(calls) = Len(driver_paths)
    /\ results' = [status |-> "raised", error |-> "Exception",
                   list |-> <<calls[Len(calls)].error>>]
    /\ UNCHANGED <<priority, vendors_data, lineVars, aiVars, apiVars, concVars>>

NextConn == TryDriver \/ RaiseNoDriver

SpecConn == InitConn /\ [][NextConn]_vars

(***************************************************************************)
(* SpecConc: several analyze / analyze-manual requests are handled at the  *)
(* same time, each by its own thread of the server's pool; a step is one   *)
(* statement group of one handler.  handlers[i] is the frame of request i  *)
(* (its position and local variables), engines the attributes of the       *)
(* engine objects the handlers have constructed, raw_data the rows the     *)
(* store holds for RFQ-1 (it holds none for any other RFQ), db the         *)
(* module-level gateway object's store.                                    *)
(***************************************************************************)
MaxRequests == 2

ConcRows ==
    <<[VENDOR_NAME |-> "X", PAY_TERM |-> "030", DELIVERY_DAYS |-> 5,
       MAT_CODE |-> 1, BASIC_PRICE |-> 10, QTY |-> 1],
      [VENDOR_NAME |-> "Y", PAY_TERM |-> "000", DELIVERY_DAYS |-> 10,
       MAT_CODE |-> 1, BASIC_PRICE |-> 12, QTY |-> 1]>>

\* The requests that can arrive together: two for the RFQ with rows under
\* different priorities, one for an RFQ without rows, one manual.
ConcRequests ==
    <<[kind |-> "analyze", rfq_no |-> "RFQ-1", plant_code |-> 1100,
       priority |-> "low_price", vendors |-> <<>>, ill_typed |-> {}],
      [kind |-> "analyze", rfq_no |-> "RFQ-1", plant_code |-> 1100,
       priority |-> "payment_terms", vendors |-> <<>>, ill_typed |-> {}],
      [kind |-> "analyze", rfq_no |-> "RFQ-2", plant_code |-> 1100,
       priority |-> "balanced", vendors |-> <<>>, ill_typed |-> {}],
      [kind |-> "manual", rfq_no |-> "", plant_code |-> 0,
       priority |-> "fast_delivery", vendors |-> SubSeq(AIVendors, 1, 2),
       ill_typed |-> {}]>>

\* The rows the store's query returns for an RFQ.
StoreRows(rfq_no) == IF rfq_no = "RFQ-1" THEN raw_data ELSE <<>>

\* What the store's counting queries return for an RFQ.
StoreOf(rfq_no) ==
    IF rfq_no = "RFQ-1" THEN db
    ELSE [db EXCEPT !.header_count = 0, !.line_count = 0, !.join_count = 0]

\* The frame of a handler that has not started.
NewFrame(req) ==
    [pc |-> "start", request |-> req, raw_data |-> <<>>, vendors_data |-> <<>>,
     results |-> NoResult, line_item_data |-> NoResult, response |-> NoResult]

comparison_engine_module_level(i) == <<"comparison_engine", 0>>

\* The engine objects of request i: each handler constructs its own.
comparison_engine(i) == <<"comparison_engine", i>>

line_item_engine(i) == <<"line_item_engine", i>>

\* Engine(priority=...): the object's attributes are set.
Construct(id, p) ==
    [x \in DOMAIN engines \cup {id} |->
        IF x = id THEN [priority |-> p] ELSE engines[x]]

\* Steps 5 and 6 of analyze_rfq and the except clauses.
analyze_rfq_response(req, vd, r, lid, client, script) ==
    LET g == generate_structured_analysis(r.list, req.priority, lid, client, script)
    IN  IF g.status = "raised"
        THEN analyze_rfq_except(Raised("Exception", 0, g.error, <<>>))
        ELSE analyze_rfq_except(ComparisonResponse(
                [rfq_no              |-> req.rfq_no,
                 plant_code          |-> req.plant_code,
                 priority            |-> req.priority,
                 vendor_analysis     |-> r.list,
                 recommendations     |-> g.list[1].recommendations,
                 structured_insights |-> g.list[1].structured_insights,
                 line_item_analysis  |-> lid.list[1],
                 ai_insights         |-> g.list[1].ai_insights,
                 metadata            |->
                    [total_vendors   |-> Len(vd),
                     total_materials |-> Len(lid.list[1].materials)]]))

\* The insight and response steps of analyze_manual and its except clause.
analyze_manual_response(req, vd, r, client, script) ==
    LET g == generate_structured_analysis(r.list, req.priority, NoResult, client, script)
    IN  IF g.status = "raised"
        THEN analyze_manual_except(Raised("Exception", 0, g.error, <<>>))
        ELSE analyze_manual_except(ComparisonResponse(
                [priority            |-> req.priority,
                 vendor_analysis     |-> r.list,
                 recommendations     |-> g.list[1].recommendations,
                 structured_insights |-> g.list[1].structured_insights,
                 ai_insights         |-> g.list[1].ai_insights,
                 metadata            |-> [total_vendors |-> Len(vd),
                                          source        |-> "manual_entry"]]))

InitConc ==
    /\ handlers \in {[i \in 1..MaxRequests |-> NewFrame(ConcRequests[k[i]])] :
                        k \in {f \in [1..MaxRequests -> DOMAIN ConcRequests] :
                                  \A i, j \in 1..MaxRequests : i < j => f[i] <= f[j]}}
    /\ engines = <<>>
    /\ raw_data = ConcRows
    /\ db \in [fetch : {"ok", "error"}, diagnose : {"ok"}, test : {"ok"},
               header_count : {2}, line_count : {2}, join_count : {2}]
    /\ llm = [client |-> FALSE, outcomes |-> <<>>]
    /\ priority = "balanced"
    /\ vendors_data = <<>>
    /\ results = NoResult
    /\ line_item_data = NoResult
    /\ ai = NoResult
    /\ request = <<>>
    /\ response = NoResult
    /\ calls = <<>>

\* Handler i moves to the given frame; only the engine objects can change
\* besides.
Step(i, frame, objects) ==
    /\ handlers' = [handlers EXCEPT ![i] = frame]
    /\ engines' = objects
    /\ UNCHANGED <<rankVars, lineVars, aiVars, apiVars>>

\* analyze_rfq, step 1: db.fetch_vendor_quotations.
Fetch(i) ==
    /\ handlers[i].pc = "start"
    /\ handlers[i].request.kind = "analyze"
    /\ \E fetched \in {fetch_vendor_quotations(db, StoreRows(handlers[i].request.rfq_no))} :
       IF fetched.status = "raised"
       THEN Step(i, [handlers[i] EXCEPT
                        !.pc = "done",
                        !.response = analyze_rfq_except(
                                        Raised("Exception", 0, fetched.error, <<>>))],
                 engines)
       ELSE Step(i, [handlers[i] EXCEPT !.pc = "fetched", !.raw_data = fetched.list],
                 engines)

\* analyze_rfq, no rows: db.diagnose_missing_quotations and the 404.
Diagnose(i) ==
    /\ handlers[i].pc = "fetched"
    /\ handlers[i].raw_data = <<>>
    /\ \E diagnostics \in {diagnose_missing_quotations(
                                StoreOf(handlers[i].request.rfq_no),
                                handlers[i].request.rfq_no,
                                handlers[i].request.plant_code)} :
       Step(i, [handlers[i] EXCEPT
                    !.pc = "done",
                    !.response = analyze_rfq_except(
                        Raised("HTTPException", 404, "No Vendor Quotations Found",
                               <<[error       |-> "No Vendor Quotations Found",
                                  rfq_no      |-> handlers[i].request.rfq_no,
                                  plant_code  |-> handlers[i].request.plant_code,
                                  diagnostics |-> diagnostics]>>))],
            engines)

\* vendors_data is built (step 2 of analyze_rfq, the loop of analyze_manual)
\* and VendorComparisonEngine(priority=request.priority.value) constructed.
NewComparisonEngine(i) ==
    /\ \/ /\ handlers[i].pc = "fetched"
          /\ handlers[i].raw_data # <<>>
       \/ /\ handlers[i].pc = "start"
          /\ handlers[i].request.kind = "manual"
    /\ \E vd \in {IF handlers[i].request.kind = "analyze"
                   THEN transform_to_comparison_format(handlers[i].raw_data)
                   ELSE [k \in DOMAIN handlers[i].request.vendors |->
                           [vendor_name        |-> handlers[i].request.vendors[k].vendor_name,
                            price              |-> handlers[i].request.vendors[k].price,
                            payment_terms_days |-> handlers[i].request.vendors[k].payment_terms_days,
                            delivery_days      |-> handlers[i].request.vendors[k].delivery_days,
                            materials          |-> <<>>]]} :
       Step(i, [handlers[i] EXCEPT !.pc = "engine", !.vendors_data = vd],
            Construct(comparison_engine(i), handlers[i].request.priority))

\* comparison_engine.rank_vendors(vendors_data): the engine's own priority
\* attribute decides the weights.
Rank(i) ==
    /\ handlers[i].pc = "engine"
    /\ \E p \in {engines[comparison_engine(i)].priority} :
       \E o \in SortOrders(handlers[i].vendors_data, p) :
       \E ov \in OverallScores(handlers[i].vendors_data, p) :
       \E r \in {rank_vendors(handlers[i].vendors_data, p, o, ov)} :
       IF r.status = "raised"
       THEN Step(i, [handlers[i] EXCEPT
                        !.pc = "done", !.results = r,
                        !.response =
                            IF handlers[i].request.kind = "analyze"
                            THEN analyze_rfq_except(Raised("Exception", 0, r.error, <<>>))
                            ELSE analyze_manual_except(Raised("Exception", 0, r.error, <<>>))],
                 engines)
       ELSE Step(i, [handlers[i] EXCEPT !.pc = "ranked", !.results = r], engines)

\* analyze_rfq, step 4: LineItemComparisonEngine(priority=...) constructed.
NewLineItemEngine(i) ==
    /\ handlers[i].pc = "ranked"
    /\ handlers[i].request.kind = "analyze"
    /\ Step(i, [handlers[i] EXCEPT !.pc = "line_engine"],
            Construct(line_item_engine(i), handlers[i].request.priority))

\* analyze_rfq, step 4: line_item_engine.analyze_materials(raw_data).
AnalyzeLineItems(i) ==
    /\ handlers[i].pc = "line_engine"
    /\ \E p \in {engines[line_item_engine(i)].priority} :
       \E grouped \in {_group_by_material(handlers[i].raw_data)} :
       \E os \in AnalysisOrders(grouped, p, Len(grouped)) :
       \E ma \in {material_analysis(handlers[i].raw_data, p, os)} :
       \E best_single \in best_singles(ma) :
       Step(i, [handlers[i] EXCEPT
                    !.pc = "analysed",
                    !.line_item_data =
                        [status |-> "returned", error |-> "",
                         list |-> <<analyze_materials(handlers[i].raw_data, p, os,
                                                      best_single)>>]],
            engines)

\* The insights are generated and the response is built.
Respond(i) ==
    /\ \/ /\ handlers[i].pc = "analysed"
       \/ /\ handlers[i].pc = "ranked"
          /\ handlers[i].request.kind = "manual"
    /\ \E script \in RequestScripts :
       \E resp \in {IF handlers[i].request.kind = "analyze"
                     THEN analyze_rfq_response(handlers[i].request,
                                               handlers[i].vendors_data,
                                               handlers[i].results,
                                               handlers[i].line_item_data,
                                               llm.client, script)
                     ELSE analyze_manual_response(handlers[i].request,
                                                  handlers[i].vendors_data,
                                                  handlers[i].results,
                                                  llm.client, script)} :
       Step(i, [handlers[i] EXCEPT !.pc = "done", !.response = resp], engines)

NextConc ==
    \/ \E i \in DOMAIN handlers : Fetch(i)
    \/ \E i \in DOMAIN handlers : Diagnose(i)
    \/ \E i \in DOMAIN handlers : NewComparisonEngine(i)
    \/ \E i \in DOMAIN handlers : Rank(i)
    \/ \E i \in DOMAIN handlers : NewLineItemEngine(i)
    \/ \E i \in DOMAIN handlers : AnalyzeLineItems(i)
    \/ \E i \in DOMAIN handlers : Respond(i)

SpecConc == InitConc /\ [][NextConc]_vars

(***************************************************************************)
(* SpecDbOps: one database operation, a statement group per step.  request *)
(* names the operation, db says whether connecting works, which of the     *)
(* operation's queries fails (0: none) and what the counting queries of    *)
(* the diagnosis find; calls holds the operation's position, the queries   *)
(* executed and the connections it has open; results is its outcome.       *)
(***************************************************************************)
DbOperations ==
    {"fetch_vendor_quotations", "diagnose_missing_quotations", "test_connection",
     "list_recent_rfqs"}

\* The cursor.execute calls of an operation that runs to its end.
QueryCount(op, database) ==
    IF op = "diagnose_missing_quotations"
    THEN 3 + (IF database.header_count > 0 THEN 1 ELSE 0)
           + (IF database.line_count > 0 THEN 1 ELSE 0)
    ELSE 1

\* The operations that catch every exception and return (a failure record,
\* False); the others raise.
CatchesAndReturns(op) == op \in {"diagnose_missing_quotations", "test_connection"}

\* A connection the operation did not close when it ended: an operation that
\* raises leaves it referenced by the traceback's frame, so it is open; after
\* an operation that returns, it is open until the runtime collects the
\* frame's local, which it may have done by then or not.
OpenAfterFailure(op) == IF CatchesAndReturns(op) THEN {0, 1} ELSE {1}

InitDbOps ==
    /\ handlers = <<>>
    /\ engines = <<>>
    /\ request \in DbOperations
    /\ db \in [connect : {"ok", "error"}, fail_at : 0..5,
               header_count : Counts, line_count : Counts]
    /\ calls = [pc |-> "start", queries |-> 0, open |-> 0]
    /\ results = NoResult
    /\ priority = "balanced"
    /\ vendors_data = <<>>
    /\ raw_data = <<>>
    /\ line_item_data = NoResult
    /\ llm = <<>>
    /\ ai = NoResult
    /\ response = NoResult

\* What a failure inside the try block becomes.
DbFailure(op, error) ==
    IF CatchesAndReturns(op)
    THEN [status |-> "returned", error |-> "", list |-> <<error>>]
    ELSE [status |-> "raised", error |-> error, list |-> <<>>]

\* conn = self.get_connection()
DbConnect ==
    /\ calls.pc = "start"
    /\ IF db.connect = "error"
       THEN /\ calls' = [calls EXCEPT !.pc = "done"]
            /\ results' = DbFailure(request, "Could not connect with any ODBC driver")
       ELSE /\ calls' = [calls EXCEPT !.pc = "connected", !.open = 1]
            /\ UNCHANGED results
    /\ UNCHANGED <<priority, vendors_data, lineVars, aiVars, request, response, db, concVars>>

\* cursor.execute(...): the next query of the operation.  A query that fails
\* takes the operation to its except clause, which has no close.
DbExecute ==
    /\ calls.pc = "connected"
    /\ calls.queries < QueryCount(request, db)
    /\ IF db.fail_at = calls.queries + 1
       THEN /\ \E still_open \in OpenAfterFailure(request) :
                  calls' = [calls EXCEPT !.pc = "done", !.open = still_open]
            /\ results' = DbFailure(request, "pyodbc.Error")
       ELSE /\ calls' = [calls EXCEPT !.queries = @ + 1]
            /\ UNCHANGED results
    /\ UNCHANGED <<priority, vendors_data, lineVars, aiVars, request, response, db, concVars>>

\* cursor.close(); conn.close(); return
DbClose ==
    /\ calls.pc = "connected"
    /\ calls.queries = QueryCount(request, db)
    /\ calls' = [calls EXCEPT !.pc = "done", !.open = 0]
    /\ results' = [status |-> "returned", error |-> "", list |-> <<>>]
    /\ UNCHANGED <<priority, vendors_data, lineVars, aiVars, request, response, db, concVars>>

NextDbOps == DbConnect \/ DbExecute \/ DbClose

SpecDbOps == InitDbOps /\ [][NextDbOps]_vars

(***************************************************************************)
(* SpecTables: the queries of fetch_vendor_quotations and of               *)
(* diagnose_missing_quotations on the contents of the header table         *)
(* MM_PUR_VQUOT_H and the detail table MM_PUR_VQUOT_T.  db holds the two   *)
(* tables, request the RFQ and plant asked for, raw_data the rows fetched, *)
(* results the diagnostic record.                                          *)
(***************************************************************************)
TableRfqs == {"RFQ-1", "RFQ-2"}
TableDocs == {1, 2}

\* The header tables: a document (plant, year, number) has at most one
\* header, which names its RFQ.
HeaderTables ==
    {{[RFQ_NO |-> of[d], PLANT_CODE |-> 1100, FYEAR |-> 2024, DOC_NO |-> d,
       VENDOR_NAME |-> IF d = 1 THEN "X" ELSE "Y"] :
            d \in {e \in TableDocs : of[e] # ""}} :
        of \in [TableDocs -> TableRfqs \cup {""}]}

\* The detail rows: each names its document and, in a column of its own,
\* its RFQ.
DetailRows ==
    {[RFQ_NO |-> "RFQ-1", PLANT_CODE |-> 1100, FYEAR |-> 2024, DOC_NO |-> 1, MAT_CODE |-> 1],
     [RFQ_NO |-> "RFQ-1", PLANT_CODE |-> 1100, FYEAR |-> 2024, DOC_NO |-> 2, MAT_CODE |-> 2],
     [RFQ_NO |-> "RFQ-2", PLANT_CODE |-> 1100, FYEAR |-> 2024, DOC_NO |-> 1, MAT_CODE |-> 3],
     [RFQ_NO |-> "RFQ-2", PLANT_CODE |-> 1100, FYEAR |-> 2024, DOC_NO |-> 2, MAT_CODE |-> 4]}

\* FROM MM_PUR_VQUOT_T t JOIN MM_PUR_VQUOT_H h ON plant, year and document.
JoinTH(tables) ==
    {<<t, h>> \in tables.details \X tables.headers :
        /\ t.PLANT_CODE = h.PLANT_CODE
        /\ t.FYEAR = h.FYEAR
        /\ t.DOC_NO = h.DOC_NO}

\* The query of fetch_vendor_quotations: WHERE h.RFQ_NO = ? AND
\* t.PLANT_CODE = ?, ORDER BY t.MAT_CODE.
fetch_query(tables, rfq_no, plant_code) ==
    LET hit == {th \in JoinTH(tables) :
                    th[2].RFQ_NO = rfq_no /\ th[1].PLANT_CODE = plant_code}
        byMat == Ascending({th[1].MAT_CODE : th \in hit})
    IN  [k \in DOMAIN byMat |->
            LET th == CHOOSE x \in hit : x[1].MAT_CODE = byMat[k]
            IN  [VENDOR_NAME |-> th[2].VENDOR_NAME, MAT_CODE |-> th[1].MAT_CODE]]

\* The counting queries of diagnose_missing_quotations: checks 1, 2 and 5.
header_count(tables, rfq_no, plant_code) ==
    Cardinality({h \in tables.headers :
                    h.RFQ_NO = rfq_no /\ h.PLANT_CODE = plant_code})

line_count(tables, rfq_no, plant_code) ==
    Cardinality({t \in tables.details :
                    t.RFQ_NO = rfq_no /\ t.PLANT_CODE = plant_code})

\* WHERE t.RFQ_NO = ? AND t.PLANT_CODE = ?
join_count(tables, rfq_no, plant_code) ==
    Cardinality({th \in JoinTH(tables) :
                    th[1].RFQ_NO = rfq_no /\ th[1].PLANT_CODE = plant_code})

InitTables ==
    /\ handlers = <<>>
    /\ engines = <<>>
    /\ db \in [headers : HeaderTables, details : SUBSET DetailRows]
    /\ request = [rfq_no |-> "RFQ-1", plant_code |-> 1100]
    /\ calls = <<>>
    /\ raw_data = <<>>
    /\ results = NoResult
    /\ priority = "balanced"
    /\ vendors_data = <<>>
    /\ line_item_data = NoResult
    /\ llm = <<>>
    /\ ai = NoResult
    /\ response = NoResult

\* db.fetch_vendor_quotations(rfq_no, plant_code), the queries succeeding.
FetchVendorQuotations ==
    /\ calls = <<>>
    /\ raw_data' = fetch_query(db, request.rfq_no, request.plant_code)
    /\ calls' = <<"fetch_vendor_quotations">>
    /\ UNCHANGED <<rankVars, line_item_data, aiVars, request, response, db, concVars>>

\* db.diagnose_missing_quotations(rfq_no, plant_code) after a fetch without
\* rows, the queries succeeding.
DiagnoseMissingQuotations ==
    /\ calls = <<"fetch_vendor_quotations">>
    /\ raw_data = <<>>
    /\ \E counted \in {[fetch |-> "ok", diagnose |-> "ok", test |-> "ok",
                         header_count |-> header_count(db, request.rfq_no, request.plant_code),
                         line_count   |-> line_count(db, request.rfq_no, request.plant_code),
                         join_count   |-> join_count(db, request.rfq_no, request.plant_code)]} :
          results' = [status |-> "returned", error |-> "",
                      list |-> <<diagnose_missing_quotations(counted, request.rfq_no,
                                                             request.plant_code)>>]
    /\ calls' = Append(calls, "diagnose_missing_quotations")
    /\ UNCHANGED <<priority, vendors_data, lineVars, aiVars, request, response, db, concVars>>

NextTables == FetchVendorQuotations \/ DiagnoseMissingQuotations

SpecTables == InitTables /\ [][NextTables]_vars

(***************************************************************************)
(* SpecTransform: transform_to_comparison_format on the rows of one RFQ.   *)
(* The rows come ORDER BY MAT_CODE, BASIC_PRICE; here every row is its own *)
(* material, row i priced at i times 0.02.  A vendor can have several      *)
(* quotation headers for the RFQ, so its rows need not agree on PAY_TERM   *)
(* and DELIVERY_DAYS.                                                      *)
(***************************************************************************)
MaxRows == 3
TransformQtys == {0, 1, 5}
TransformHeaders ==
    {[PAY_TERM |-> "030", DELIVERY_DAYS |-> 5], [PAY_TERM |-> "000", DELIVERY_DAYS |-> 10]}

\* The rows for a choice r of vendor, header and quantity per row.
TransformRows(r) ==
    [i \in DOMAIN r |->
        [VENDOR_NAME   |-> r[i][1],
         PAY_TERM      |-> r[i][2].PAY_TERM,
         DELIVERY_DAYS |-> r[i][2].DELIVERY_DAYS,
         MAT_CODE      |-> i,
         BASIC_PRICE   |-> 10 * i,
         QTY           |-> r[i][3]]]

InitTransform ==
    /\ handlers = <<>>
    /\ engines = <<>>
    /\ priority = "balanced"
    /\ \E n \in 0..MaxRows :
         \E r \in [1..n -> LineVendors \X TransformHeaders \X TransformQtys] :
            raw_data = TransformRows(r)
    /\ line_item_data = NoResult
    /\ vendors_data = <<>>
    /\ results = NoResult
    /\ llm = <<>>
    /\ ai = NoResult
    /\ request = <<>>
    /\ response = NoResult
    /\ calls = <<>>
    /\ db = <<>>

\* The gateway transforms the rows; calls records that it returned.
Transform ==
    /\ calls = <<>>
    /\ vendors_data' = transform_to_comparison_format(raw_data)
    /\ calls' = <<"transform_to_comparison_format">>
    /\ UNCHANGED <<priority, results, lineVars, aiVars, request, response, db, concVars>>

NextTransform == Transform

SpecTransform == InitTransform /\ [][NextTransform]_vars

(***************************************************************************)
(* The basic comparison engine (comparison_engine.py) and SpecBasic:       *)
(* VendorComparisonEngine.rank_vendors on the pools of SpecScore.          *)
(***************************************************************************)
\* df['rank_score'] of row i (doubled, as the ranks are).
basic_rank_score(vd, p, i) ==
    LET rp == Rank2Asc(Column(vd, "price"), i)
        rd == Rank2Asc(Column(vd, "delivery_days"), i)
        ry == Rank2Desc(Column(vd, "payment_terms_days"), i)
    IN  IF p = "low_price" THEN rp * 3 + rd + ry
        ELSE IF p = "fast_delivery" THEN rd * 3 + rp + ry
        ELSE IF p = "payment_terms" THEN ry * 3 + rp + rd
        ELSE rp + rd + ry

\* df.sort_values('rank_score'): the row orders the sort may produce.
BasicSortOrders(vd, p) ==
    {o \in Perms[Len(vd)] :
        \A i, j \in 1..Len(vd) :
            i < j => basic_rank_score(vd, p, o[i]) <= basic_rank_score(vd, p, o[j])}

\* RankingResult(**kwargs): a missing required field is a ValidationError.
RankingResultRequired ==
    {"rank", "vendor_name", "vendor_no", "score", "display_score", "price",
     "payment_terms_days", "delivery_days"}

RankingResult(kwargs) ==
    IF RankingResultRequired \subseteq DOMAIN kwargs
    THEN Returned(kwargs)
    ELSE Raised("ValidationError", 0, "ValidationError", <<>>)

\* The keyword arguments rank_vendors gives RankingResult for sorted row k.
basic_result_kwargs(vd, p, o, k) ==
    [rank               |-> k,
     vendor_name        |-> vd[o[k]].vendor_name,
     score              |-> basic_rank_score(vd, p, o[k]),
     price              |-> vd[o[k]].price,
     payment_terms_days |-> vd[o[k]].payment_terms_days,
     delivery_days      |-> vd[o[k]].delivery_days,
     category_winners   |->
        (IF vd[o[k]].vendor_name = best_price_vendor(vd, o) THEN {"Best Price"} ELSE {})
        \cup (IF vd[o[k]].vendor_name = best_delivery_vendor(vd, o)
              THEN {"Fastest Delivery"} ELSE {})
        \cup (IF vd[o[k]].vendor_name = best_payment_vendor(vd, o)
              THEN {"Best Payment Terms"} ELSE {}),
     materials          |-> vd[o[k]].materials]

\* VendorComparisonEngine.rank_vendors with the frame sorted in order o: the
\* first exception raised ends the call.
basic_rank_vendors(vd, p, o) ==
    IF vd = <<>> THEN [status |-> "returned", error |-> "", list |-> <<>>]
    ELSE IF ~HasPositiveDelivery(vd)
    THEN [status |-> "raised", error |-> "ValueError", list |-> <<>>]
    ELSE LET made == [k \in DOMAIN vd |-> RankingResult(basic_result_kwargs(vd, p, o, k))]
         IN  IF \E k \in DOMAIN made : made[k].status = "raised"
             THEN [status |-> "raised", error |-> "ValidationError", list |-> <<>>]
             ELSE [status |-> "returned", error |-> "",
                   list |-> [k \in DOMAIN made |-> made[k].list[1]]]

BasicRankVendors ==
    /\ results.status = "none"
    /\ \E o \in BasicSortOrders(vendors_data, priority) :
          results' = basic_rank_vendors(vendors_data, priority, o)
    /\ UNCHANGED <<priority, vendors_data, lineVars, aiVars, apiVars, concVars>>

NextBasic == BasicRankVendors

SpecBasic == InitScore /\ [][NextBasic]_vars

(***************************************************************************)
(* Claims about rank_vendors (checked under SpecRank).                     *)
(***************************************************************************)
RankCalled == results.status # "none" /\ vendors_data # <<>>

Badges == {"Best Price", "Fastest Delivery", "Best Payment Terms"}

Holders(b) == {k \in DOMAIN results.list : b \in results.list[k].category_winners}

\* C1: for every non-empty vendor list of size N and every priority,
\* rank_vendors returns exactly N results whose ranks, in list order, are
\* 1, 2, ..., N (no duplicates, no gaps), also when composite scores tie.
C1_RanksAreOneToN ==
    RankCalled =>
        /\ results.status = "returned"
        /\ Len(results.list) = Len(vendors_data)
        /\ \A k \in DOMAIN results.list : results.list[k].rank = k

\* C2: for any non-empty pool (repeated vendor names and all-zero delivery
\* days included) rank_vendors returns normally and each of the three badges
\* is held by exactly one returned vendor.
C2_OneWinnerPerBadge ==
    RankCalled =>
        /\ results.status = "returned"
        /\ \A b \in Badges : Cardinality(Holders(b)) = 1

(***************************************************************************)
(* Claims about the split award (checked under SpecLine).                  *)
(***************************************************************************)
LineCalled == line_item_data.status = "returned" /\ raw_data # <<>>

split_award == line_item_data.list[1].split_award_strategy

AllocationVendors ==
    {split_award.vendor_allocation[a].vendor_name : a \in DOMAIN split_award.vendor_allocation}

\* The order's material codes and quantities, and what each vendor who quotes
\* every material would charge for the whole order, read from the rows.
MaterialCodes(raw) == {raw[i].MAT_CODE : i \in DOMAIN raw}

QtyOf(raw, code) == raw[SetMin({i \in DOMAIN raw : raw[i].MAT_CODE = code})].QTY

QuotesEveryMaterial(raw, v) ==
    \A c \in MaterialCodes(raw) :
        \E i \in DOMAIN raw : raw[i].MAT_CODE = c /\ raw[i].VENDOR_NAME = v

WholeOrderCost(raw, v) ==
    SumSeq([i \in DOMAIN raw |->
        IF raw[i].VENDOR_NAME = v
        THEN raw[i].BASIC_PRICE * QtyOf(raw, raw[i].MAT_CODE) ELSE 0])

ExactSingleVendorCost(raw) ==
    LET full == {raw[i].VENDOR_NAME : i \in DOMAIN raw} \cap
                {v \in LineVendors : QuotesEveryMaterial(raw, v)}
    IN  IF full = {} THEN 0 ELSE SetMin({WholeOrderCost(raw, v) : v \in full})

ExactSplitCost ==
    SumSeq([m \in DOMAIN line_item_data.list[1].materials |->
        line_item_data.list[1].materials[m].recommended_vendor.total_value])

\* C9 as stated: is_recommended is true if and only if the reported
\* total_cost_single_vendor minus the reported total_cost_split is above zero
\* and the allocation names more than one distinct vendor.
C9_AsStated ==
    LineCalled =>
        (split_award.is_recommended <=>
            /\ split_award.total_cost_single_vendor - split_award.total_cost_split > 0
            /\ Cardinality(AllocationVendors) > 1)

\* C9: is_recommended is true if and only if the cheapest whole-order cost
\* among vendors quoting every material (0 when there is none) minus the cost
\* of the split, both taken before rounding to two decimals, is above zero
\* and the allocation names more than one distinct vendor.
C9_RecommendedIffExactSavings ==
    LineCalled =>
        (split_award.is_recommended <=>
            /\ ExactSingleVendorCost(raw_data) - ExactSplitCost > 0
            /\ Cardinality(AllocationVendors) > 1)

\* A split is recommended although the two reported totals are equal.
C9_Witness ==
    /\ LineCalled
    /\ split_award.is_recommended
    /\ split_award.total_cost_single_vendor = split_award.total_cost_split

AllocationOf(code) ==
    {a \in DOMAIN split_award.vendor_allocation :
        \E k \in DOMAIN split_award.vendor_allocation[a].material_codes :
            split_award.vendor_allocation[a].material_codes[k] = code}

SumAllocation(field) ==
    SumSeq([a \in DOMAIN split_award.vendor_allocation |->
                split_award.vendor_allocation[a][field]])

\* Every material is in exactly one allocation entry, the one of its
\* recommended vendor, each code listed once; material_count adds up to the
\* number of materials; the percentages add up to 100 when the split cost is
\* above zero.
AllocationPartitions ==
    /\ \A m \in DOMAIN line_item_data.list[1].materials :
        LET mat == line_item_data.list[1].materials[m]
        IN  /\ Cardinality(AllocationOf(mat.mat_code)) = 1
            /\ \A a \in AllocationOf(mat.mat_code) :
                /\ split_award.vendor_allocation[a].vendor_name
                        = mat.recommended_vendor.vendor_name
                /\ Cardinality({k \in DOMAIN split_award.vendor_allocation[a].material_codes :
                        split_award.vendor_allocation[a].material_codes[k] = mat.mat_code}) = 1
    /\ Cardinality(AllocationVendors) = Len(split_award.vendor_allocation)
    /\ \A a \in DOMAIN split_award.vendor_allocation :
        split_award.vendor_allocation[a].material_count
            = Len(split_award.vendor_allocation[a].material_codes)
    /\ SumAllocation("material_count") = Cardinality(MaterialCodes(raw_data))
    /\ Len(line_item_data.list[1].materials) = Cardinality(MaterialCodes(raw_data))
    /\ split_award.total_cost_split > 0 =>
        \A a \in DOMAIN split_award.vendor_allocation :
            /\ split_award.vendor_allocation[a].percentage_of_order.den = ExactSplitCost
            /\ SumSeq([b \in DOMAIN split_award.vendor_allocation |->
                    split_award.vendor_allocation[b].percentage_of_order.num])
                = 100 * split_award.vendor_allocation[a].percentage_of_order.den

\* C10 as stated: the allocation partitions the materials, material_count
\* adds up to the number of materials, the percentages add up to 100, and the
\* entries' total_value adds up to the reported total_cost_split.
C10_AsStated ==
    LineCalled =>
        /\ AllocationPartitions
        /\ SumAllocation("total_value") = split_award.total_cost_split

\* C10: each material is in exactly one allocation entry, that of its
\* recommended vendor; material_count adds up to the number of materials; the
\* entries' total_value adds up to the split cost before rounding, of which
\* total_cost_split is the rounding to two decimals; when total_cost_split is
\* above zero the percentages add up to 100.
C10_AllocationPartitionsOrder ==
    LineCalled =>
        /\ AllocationPartitions
        /\ SumAllocation("total_value") = ExactSplitCost
        /\ split_award.total_cost_split = Round2(ExactSplitCost)

\* Two vendors share the order, one of them with two materials or not, and
\* the allocated values do not add up to the reported total.
C10_Witness ==
    /\ LineCalled
    /\ Len(split_award.vendor_allocation) > 1
    /\ split_award.total_cost_split > 0
    /\ SumAllocation("total_value") # split_award.total_cost_split

(***************************************************************************)
(* Claims about the insight engines (checked under SpecAI).                *)
(***************************************************************************)
\* The AIInsights an engine returned.
Narrative == IF ai.engine = "enhanced" THEN ai.list[1].ai_insights ELSE ai.list[1]

NarrativeSections ==
    {"primary_recommendation", "alternate_strategy", "risk_consideration", "project_impact"}

\* C7: without an API key and with a non-empty ranking, either engine makes
\* no LLM call and returns an AIInsights whose four narrative sections are
\* non-empty and whose negotiation_tips has at least one tip; the enhanced
\* engine also returns non-empty recommendations and structured insights.
C7_NoKeyFullyPopulated ==
    (ai.status # "none" /\ ~llm.client /\ results.list # <<>>) =>
        /\ ai.status = "returned"
        /\ llm.outcomes = <<>>
        /\ \A sec \in NarrativeSections : Narrative[sec] # <<>>
        /\ Narrative.negotiation_tips # <<>>
        /\ ai.engine = "enhanced" =>
            /\ ai.list[1].recommendations # <<>>
            /\ ai.list[1].structured_insights # <<>>

\* The legacy narrative generation of the enhanced engine ran with a client:
\* the ranking is non-empty and the structured insights before it returned.
LegacyNarrativeRan ==
    /\ ai.status # "none"
    /\ ai.engine = "enhanced"
    /\ llm.client
    /\ results.list # <<>>
    /\ ~(Len(results.list) > 1 /\ results.list[2].quoted_amount = 0)

\* C8: with a client, whatever each LLM call does (exception, no choices,
\* missing, empty or whitespace-only content, text), the enhanced engine's
\* legacy narrative returns and each of its narrative sections is non-empty.
C8_NarrativeNeverEmpty ==
    LegacyNarrativeRan =>
        /\ ai.status = "returned"
        /\ \A sec \in NarrativeSections : Narrative[sec] # <<>>

(***************************************************************************)
(* Claims about the HTTP API (checked under SpecApi).                      *)
(***************************************************************************)
Answered(kind) == request.kind = kind /\ response.status = "sent"

\* A manual request the contract calls valid.
ValidManualRequest ==
    /\ request.ill_typed = {}
    /\ Len(request.vendors) >= 2
    /\ \A i \in DOMAIN request.vendors :
          /\ request.vendors[i].vendor_name # ""
          /\ request.vendors[i].price > 0
          /\ request.vendors[i].payment_terms_days >= 0
          /\ request.vendors[i].delivery_days > 0

\* C3: every valid manual request, under every priority, is answered with a
\* success response that carries vendor analysis, recommendations, structured
\* insights, legacy AI insights and metadata; never with a 500.
C3_ManualRequestSucceeds ==
    (Answered("manual") /\ ValidManualRequest) =>
        /\ response.code = 200
        /\ {"vendor_analysis", "recommendations", "structured_insights",
            "ai_insights", "metadata"} \subseteq DOMAIN response.list[1]

\* C4: when the fetch returns rows and ranking, line-item analysis and
\* insight generation all complete, the analyze endpoint answers with a
\* success response aggregating the identifiers, the priority, one
\* vendor_analysis entry per vendor, recommendations, structured insights,
\* line-item analysis, AI insights and metadata.
C4_AnalyzeResponseAssembles ==
    (/\ Answered("analyze")
     /\ results.status = "returned"
     /\ line_item_data.status = "returned"
     /\ ai.status = "returned") =>
        /\ response.code = 200
        /\ {"rfq_no", "plant_code", "priority", "vendor_analysis", "recommendations",
            "structured_insights", "line_item_analysis", "ai_insights", "metadata"}
                \subseteq DOMAIN response.list[1]
        /\ Len(response.list[1].vendor_analysis) = Len(vendors_data)

\* The analyze handler got an empty list from fetch_vendor_quotations.
EmptyFetch ==
    /\ Answered("analyze")
    /\ AnalyzeRFQRequest(request)
    /\ db.fetch = "ok"
    /\ raw_data = <<>>

\* C5: when the fetch returns an empty list, the diagnosis runs exactly once,
\* no ranking, line-item or insight engine runs, and the response is a 404
\* whose detail carries the diagnostic record, never a 500, also when the
\* diagnosis itself hit a database error.
C5_EmptyFetchIs404WithDiagnostics ==
    EmptyFetch =>
        /\ calls.fetch = 1
        /\ calls.diagnose = 1
        /\ calls.rank = 0 /\ calls.line = 0 /\ calls.insight = 0
        /\ results = NoResult /\ line_item_data = NoResult /\ ai = NoResult
        /\ llm.outcomes = <<>>
        /\ response.code = 404
        /\ response.list[1].diagnostics =
              diagnose_missing_quotations(db, request.rfq_no, request.plant_code)
        /\ db.diagnose # "ok" => response.list[1].diagnostics.diagnostic_failed

\* An empty fetch whose diagnosis hit a database error was answered 404 with
\* the failed-diagnosis record.
C5_Witness ==
    /\ EmptyFetch
    /\ db.diagnose = "error"
    /\ response.code = 404
    /\ response.list[1].diagnostics.diagnostic_failed

\* C6: when the connection to the store or the query on it fails during
\* GET /health, the response has status 503 and carries the error.
C6_HealthFailureIs503 ==
    (Answered("health") /\ db.test # "ok") =>
        /\ response.code = 503
        /\ response.error # ""

(***************************************************************************)
(* Claims about the scores of rank_vendors (checked under SpecScore and    *)
(* SpecPrice).                                                             *)
(***************************************************************************)
\* rank_vendors returned a result for a non-empty pool.
Ranked == results.status = "returned" /\ results.list # <<>>

RowOf(k) == results.list[k].vendor_name

MinPrice == SetMin({vendors_data[i].price : i \in DOMAIN vendors_data})

MinDelivery == SetMin({vendors_data[i].delivery_days : i \in DOMAIN vendors_data})

AtMinPrice == {i \in DOMAIN vendors_data : vendors_data[i].price = MinPrice}

\* Result row k is a cheapest vendor whose delivery is not the fastest.
CheapestButNotFastest(k) ==
    /\ RowOf(k) \in AtMinPrice
    /\ vendors_data[RowOf(k)].delivery_days # MinDelivery

\* C12 as stated: under low_price, every vendor at the lowest price whose
\* delivery days are not the pool's lowest has a composite rank score
\* strictly above the one it has under fast_delivery, however many vendors
\* share the lowest price.
C12_AsStated ==
    (Ranked /\ priority = "low_price") =>
        \A k \in DOMAIN results.list :
            CheapestButNotFastest(k) =>
                results.list[k].score
                    > rank_score(vendors_data, "fast_delivery", RowOf(k))

\* C12, amended: the same, when at most two vendors quote the lowest price.
C12_CheapestScoresHigherUnderLowPrice ==
    (Ranked /\ priority = "low_price" /\ Cardinality(AtMinPrice) <= 2) =>
        \A k \in DOMAIN results.list :
            CheapestButNotFastest(k) =>
                results.list[k].score
                    > rank_score(vendors_data, "fast_delivery", RowOf(k))

\* Two of three vendors share the lowest price; one of the two is not the
\* fastest and was scored under low_price.
C12_Witness ==
    /\ Ranked /\ priority = "low_price"
    /\ Len(vendors_data) = 3
    /\ Cardinality(AtMinPrice) = 2
    /\ \E k \in DOMAIN results.list :
          /\ CheapestButNotFastest(k)
          /\ results.list[k].score
                > rank_score(vendors_data, "fast_delivery", RowOf(k))

\* The PRICE dimension score (tenths) of result row k.
PriceScoreOf(k) == results.list[k].dimension_scores[1].score

\* The step function of the percentage by which price exceeds lowest (a
\* price above a lowest price of 0 exceeds it by more than any percentage).
PriceStep(price, lowest) ==
    LET d == (price - lowest) * 100
    IN  IF price = lowest THEN 100
        ELSE IF d < 2 * lowest THEN 95
        ELSE IF d < 5 * lowest THEN 90
        ELSE IF d < 10 * lowest THEN 75
        ELSE IF d < 15 * lowest THEN 60
        ELSE IF d < 20 * lowest THEN 45
        ELSE IF d < 30 * lowest THEN 30
        ELSE 15

\* C13: for every pool with non-negative prices, a lowest price of 0
\* included, the PRICE dimension score is the step function of the
\* percentage above the lowest price (10.0, 9.5, 9.0, 7.5, 6.0, 4.5, 3.0,
\* 1.5 at 0, <2, <5, <10, <15, <20, <30, >=30 percent); every vendor at the
\* lowest price scores 10.0.
C13_PriceScoreIsStepFunction ==
    Ranked =>
        \A k \in DOMAIN results.list :
            /\ PriceScoreOf(k) = PriceStep(results.list[k].price, MinPrice)
            /\ results.list[k].price = MinPrice => PriceScoreOf(k) = 100

\* C14: for every vendor pool and every priority, the overall_score of
\* every returned VendorAnalysis lies between 0 and 10 (0 and 100 tenths).
C14_OverallScoreWithinTen ==
    Ranked =>
        \A k \in DOMAIN results.list :
            /\ results.list[k].overall_score >= 0
            /\ results.list[k].overall_score <= 100

(***************************************************************************)
(* Claims about the gateway's diagnosis (checked under SpecApi).           *)
(***************************************************************************)
\* The diagnostic record the analyze handler put in its 404 detail.
Diagnostics == response.list[1].diagnostics

\* The analyze handler asked the gateway for an RFQ/plant pair without a
\* header row.
NoHeaderRow == Answered("analyze") /\ calls.fetch = 1 /\ db.header_count = 0

\* C15: for an RFQ/plant pair with no header row, a fetch that reaches the
\* store returns the empty list, and a diagnosis that reaches the store
\* returns a record whose checks.rfq_exists_in_header is false and whose
\* possible_reasons holds the RFQ-does-not-exist explanation; the diagnosis
\* never raises: a database failure yields the diagnostic_failed record, and
\* the handler answers 404 with the record, not 500.
C15_NoHeaderRowIsDiagnosed ==
    /\ (NoHeaderRow /\ db.fetch = "ok") =>
          /\ raw_data = <<>>
          /\ vendors_data = <<>>
          /\ calls.diagnose = 1
    /\ (Answered("analyze") /\ calls.diagnose = 1) =>
          /\ response.code = 404
          /\ {"rfq_no", "plant_code"} \subseteq DOMAIN Diagnostics
          /\ IF db.diagnose = "ok"
             THEN {"checks", "possible_reasons"} \subseteq DOMAIN Diagnostics
             ELSE Diagnostics.diagnostic_failed /\ Diagnostics.error = db.diagnose
    /\ (NoHeaderRow /\ db.fetch = "ok" /\ db.diagnose = "ok") =>
          /\ ~Diagnostics.checks.rfq_exists_in_header
          /\ \E k \in DOMAIN Diagnostics.possible_reasons :
                Diagnostics.possible_reasons[k] = "RFQ does not exist in system for plant"

\* An RFQ with line items but no header row was fetched (no rows) and
\* diagnosed as not existing.
C15_Witness ==
    /\ NoHeaderRow
    /\ db.fetch = "ok" /\ db.diagnose = "ok"
    /\ db.line_count > 0
    /\ response.code = 404
    /\ ~Diagnostics.checks.rfq_exists_in_header
    /\ Diagnostics.possible_reasons[1] = "RFQ does not exist in system for plant"

(***************************************************************************)
(* Claims about request validation (checked under SpecApi).                *)
(***************************************************************************)
\* An analyze request the contract calls invalid.
InvalidAnalyzeRequest ==
    /\ request.kind = "analyze"
    /\ \/ request.rfq_no = ""
       \/ request.ill_typed \cap {"rfq_no", "plant_code", "priority"} # {}

\* A manual request the contract calls invalid.
InvalidManualRequest ==
    /\ request.kind = "manual"
    /\ \/ Len(request.vendors) < 2
       \/ request.ill_typed \cap {"vendor_name", "price", "payment_terms_days",
                                  "delivery_days"} # {}

\* C16: an analyze request whose rfq_no is empty or missing, whose plant_code
\* is not an integer or whose priority is not one of the four values, and a
\* manual request with fewer than 2 vendors or with an entry lacking a field,
\* is answered with a validation error (422) before any gateway or engine
\* operation runs.
C16_InvalidRequestIsRejected ==
    (response.status = "sent" /\ (InvalidAnalyzeRequest \/ InvalidManualRequest)) =>
        /\ response.code = 422
        /\ calls = NoCalls

(***************************************************************************)
(* Claims about the payment-term maps (checked under SpecTerms).           *)
(***************************************************************************)
\* The table of 3-digit codes, the table of 2-digit codes.
ThreeDigitTable ==
    [c \in {"000", "015", "030", "060", "090"} |->
        CASE c = "000" -> 0 [] c = "015" -> 15 [] c = "030" -> 30
          [] c = "060" -> 60 [] c = "090" -> 90]

TwoDigitTable ==
    [c \in {"00", "01", "02", "03", "04", "05"} |->
        CASE c = "00" -> 0 [] c = "01" -> 90 [] c = "02" -> 30
          [] c = "03" -> 45 [] c = "04" -> 60 [] c = "05" -> 90]

ThreeDigitCodes == {"000", "015", "030", "060", "090", "045"}

\* The PAY_TERM code of a vendor's rows.
CodeOf(name) ==
    raw_data[CHOOSE i \in DOMAIN raw_data : raw_data[i].VENDOR_NAME = name].PAY_TERM

\* The days the gateway's transformation gave the vendor.
GatewayDays(name) ==
    vendors_data[CHOOSE i \in DOMAIN vendors_data :
                    vendors_data[i].vendor_name = name].payment_terms_days

\* The quotes of the analysed material.
AnalysedQuotes == line_item_data.list[1].materials[1].vendor_quotes

\* The days the line-item engine gave the vendor.
LineItemDays(name) ==
    AnalysedQuotes[CHOOSE k \in DOMAIN AnalysedQuotes :
                      AnalysedQuotes[k].vendor_name = name].payment_terms_days

\* C17: the gateway's map gives 0, 15, 30, 60, 90 for '000', '015', '030',
\* '060', '090' and 0 for every other code; the line-item engine's map gives
\* the gateway's value for every 3-digit code, 0, 90, 30, 45, 60, 90 for
\* '00'..'05', and 0 for every code in neither table.
C17_PaymentTermMaps ==
    \A name \in LineVendors :
        LET code == CodeOf(name)
        IN  /\ vendors_data # <<>> =>
                GatewayDays(name) = IF code \in DOMAIN ThreeDigitTable
                                    THEN ThreeDigitTable[code] ELSE 0
            /\ line_item_data.status = "returned" =>
                LineItemDays(name) =
                    IF code \in DOMAIN ThreeDigitTable THEN ThreeDigitTable[code]
                    ELSE IF code \in DOMAIN TwoDigitTable THEN TwoDigitTable[code]
                    ELSE 0
            /\ (vendors_data # <<>> /\ line_item_data.status = "returned"
                    /\ code \in ThreeDigitCodes) =>
                LineItemDays(name) = GatewayDays(name)

\* Both components mapped the rows of a vendor with code '01' (90 days for
\* the line-item engine, 0 for the gateway) and of one with code '030'.
C17_Witness ==
    /\ vendors_data # <<>>
    /\ line_item_data.status = "returned"
    /\ CodeOf("X") = "01" /\ CodeOf("Y") = "030"
    /\ GatewayDays("X") = 0 /\ LineItemDays("X") = 90
    /\ GatewayDays("Y") = 30 /\ LineItemDays("Y") = 30

(***************************************************************************)
(* Claims about the payment terms in the ranking (checked under SpecScore).*)
(***************************************************************************)
\* Result rows a and b quote the same price and delivery, a with more
\* payment-term days.
SameButMoreCredit(a, b) ==
    /\ results.list[a].price = results.list[b].price
    /\ results.list[a].delivery_days = results.list[b].delivery_days
    /\ results.list[a].payment_terms_days > results.list[b].payment_terms_days

\* Result row a has strictly the most payment-term days of the pool.
MostCredit(a) ==
    \A b \in DOMAIN results.list :
        b # a => results.list[a].payment_terms_days > results.list[b].payment_terms_days

\* C19: more credit days is better.  Of two vendors with equal price and
\* delivery, the one with strictly more payment-term days has a normalized
\* payment fraction and a composite rank score at least as high and is not
\* ranked behind the other, under every priority; the vendor with strictly
\* the most payment days has payment fraction 1.0.
C19_MoreCreditDaysIsBetter ==
    Ranked =>
        \A a \in DOMAIN results.list :
            /\ \A b \in DOMAIN results.list :
                  SameButMoreCredit(a, b) =>
                     /\ payment_rank_normalized(vendors_data, RowOf(a))
                            >= payment_rank_normalized(vendors_data, RowOf(b))
                     /\ results.list[a].score >= results.list[b].score
                     /\ results.list[a].rank < results.list[b].rank
            /\ MostCredit(a) =>
                  payment_rank_normalized(vendors_data, RowOf(a)) = 2 * Len(vendors_data)

(***************************************************************************)
(* Claims about get_connection (checked under SpecConn).                   *)
(***************************************************************************)
\* The order of attempts the contract gives.
AttemptOrder ==
    <<"/tmp/odbc_driver/opt/microsoft/msodbcsql17/lib64/libmsodbcsql-17.10.so.5.1",
      "ODBC Driver 17 for SQL Server", "ODBC Driver 18 for SQL Server",
      "ODBC Driver 13 for SQL Server">>

\* C20: get_connection makes at most four attempts, in the order runtime
\* driver path, Driver 17, Driver 18, Driver 13, each with the connection
\* string of the driver it names; it returns the connection of the first
\* attempt that succeeds and attempts nothing more; if every attempt fails it
\* raises an error embedding the last underlying error; so on a host where
\* only Driver 18 (or only Driver 13) is usable it succeeds.
C20_DriversTriedInOrder ==
    /\ Len(calls) <= 4
    /\ \A k \in DOMAIN calls :
          /\ calls[k].driver = AttemptOrder[k]
          /\ calls[k].connection_string = calls[k].driver
          /\ k < Len(calls) => calls[k].status = "raised"
    /\ results.status = "returned" =>
          /\ calls[Len(calls)].status = "returned"
          /\ results.list[1] = calls[Len(calls)].connection_string
    /\ results.status = "raised" =>
          /\ Len(calls) = 4
          /\ calls[4].status = "raised"
          /\ results.list[1] = calls[4].error
    /\ (/\ results.status # "none"
        /\ db.server = "up"
        /\ db.usable \in {{"ODBC Driver 18 for SQL Server"},
                          {"ODBC Driver 13 for SQL Server"}}) =>
          results.status = "returned"

(***************************************************************************)
(* Claims about concurrent requests (checked under SpecConc).              *)
(***************************************************************************)
\* The rankings and the line-item analyses a request can get on its own.
RankOutcomes(vd, p) ==
    {rank_vendors(vd, p, o, ov) : o \in SortOrders(vd, p), ov \in OverallScores(vd, p)}

LineOutcomes(rows, p) ==
    LET grouped == _group_by_material(rows)
    IN  UNION {{[status |-> "returned", error |-> "",
                 list |-> <<analyze_materials(rows, p, os, best_single)>>] :
                    best_single \in best_singles(material_analysis(rows, p, os))} :
               os \in AnalysisOrders(grouped, p, Len(grouped))}

\* The finished frame h is one its request reaches when it is the only
\* request handled.
AnalyzeHandledAlone(h) ==
    LET q       == h.request
        fetched == fetch_vendor_quotations(db, StoreRows(q.rfq_no))
    IN  IF fetched.status = "raised"
        THEN h.response = analyze_rfq_except(Raised("Exception", 0, fetched.error, <<>>))
        ELSE IF fetched.list = <<>>
        THEN /\ h.response.code = 404
             /\ h.response.list[1].rfq_no = q.rfq_no
             /\ h.response.list[1].diagnostics =
                    diagnose_missing_quotations(StoreOf(q.rfq_no), q.rfq_no, q.plant_code)
        ELSE /\ h.raw_data = fetched.list
             /\ h.vendors_data = transform_to_comparison_format(fetched.list)
             /\ h.results \in RankOutcomes(h.vendors_data, q.priority)
             /\ IF h.results.status = "raised"
                THEN h.response =
                        analyze_rfq_except(Raised("Exception", 0, h.results.error, <<>>))
                ELSE /\ h.line_item_data \in LineOutcomes(fetched.list, q.priority)
                     /\ \E script \in RequestScripts :
                           h.response =
                              analyze_rfq_response(q, h.vendors_data, h.results,
                                                   h.line_item_data, llm.client, script)

ManualHandledAlone(h) ==
    LET q == h.request
    IN  /\ Len(h.vendors_data) = Len(q.vendors)
        /\ \A k \in DOMAIN q.vendors :
              /\ h.vendors_data[k].vendor_name = q.vendors[k].vendor_name
              /\ h.vendors_data[k].price = q.vendors[k].price
              /\ h.vendors_data[k].payment_terms_days = q.vendors[k].payment_terms_days
              /\ h.vendors_data[k].delivery_days = q.vendors[k].delivery_days
        /\ h.results \in RankOutcomes(h.vendors_data, q.priority)
        /\ IF h.results.status = "raised"
           THEN h.response =
                    analyze_manual_except(Raised("Exception", 0, h.results.error, <<>>))
           ELSE \E script \in RequestScripts :
                    h.response = analyze_manual_response(q, h.vendors_data, h.results,
                                                         llm.client, script)

\* C18: requests handled concurrently, in any interleaving of their steps,
\* each end with the response (and the analysis behind it) they get when
\* handled alone on the same quotation data; every engine a handler uses
\* carries that handler's own priority.
C18_ConcurrentRequestsAreIsolated ==
    \A i \in DOMAIN handlers :
        /\ handlers[i].pc = "engine" =>
              engines[comparison_engine(i)].priority = handlers[i].request.priority
        /\ handlers[i].pc = "line_engine" =>
              engines[line_item_engine(i)].priority = handlers[i].request.priority
        /\ handlers[i].pc = "done" =>
              /\ handlers[i].response.status = "sent"
              /\ IF handlers[i].request.kind = "analyze"
                 THEN AnalyzeHandledAlone(handlers[i])
                 ELSE ManualHandledAlone(handlers[i])

\* Two requests for the same RFQ under different priorities overlapped: the
\* second had constructed its engine and not yet ranked when the first,
\* which had constructed its own engine before, was answered from a ranking
\* made under its own priority.
C18_Witness ==
    /\ Len(handlers) >= 2
    /\ handlers[1].request.rfq_no = "RFQ-1"
    /\ handlers[2].request.rfq_no = "RFQ-1"
    /\ handlers[1].request.priority # handlers[2].request.priority
    /\ handlers[1].pc = "done"
    /\ handlers[1].results.status = "returned"
    /\ handlers[1].response.status = "sent"
    /\ handlers[2].pc = "engine"
    /\ engines[comparison_engine(1)].priority = handlers[1].request.priority
    /\ engines[comparison_engine(2)].priority = handlers[2].request.priority

(***************************************************************************)
(* Claims about the database operations (checked under SpecDbOps).         *)
(***************************************************************************)
\* C21: when a database operation (fetch_vendor_quotations,
\* diagnose_missing_quotations, test_connection, the RFQ-list endpoint) has
\* returned or raised, no connection it opened is still open, also when a
\* query failed after the connection was established.
C21_NoConnectionLeftOpen ==
    calls.pc = "done" => calls.open = 0

(***************************************************************************)
(* Claims about the diagnosis of an empty fetch (checked under SpecTables).*)
(***************************************************************************)
\* The fetch returned no rows and the diagnosis has completed.
DiagnosedEmptyFetch ==
    /\ calls = <<"fetch_vendor_quotations", "diagnose_missing_quotations">>
    /\ raw_data = <<>>
    /\ results.status = "returned"

\* C22: whenever fetch_vendor_quotations returns no rows and
\* diagnose_missing_quotations then completes on the same tables, the record
\* explains the absence: checks.join_successful is false, possible_reasons
\* is not empty and action_required has its length, whatever the tables hold.
C22_EmptyFetchIsExplained ==
    DiagnosedEmptyFetch =>
        /\ ~results.list[1].checks.join_successful
        /\ results.list[1].possible_reasons # <<>>
        /\ Len(results.list[1].action_required) = Len(results.list[1].possible_reasons)

(***************************************************************************)
(* Claims about the structured insights (checked under SpecAI and SpecApi).*)
(***************************************************************************)
\* The enhanced engine returned its insights for a ranking with a winner.
InsightsReturned ==
    /\ ai.status = "returned"
    /\ ai.engine = "enhanced"
    /\ results.status = "returned"
    /\ results.list # <<>>

StructuredInsights == ai.list[1].structured_insights

\* The risk entries of the RISK insight that are about a dimension.
DimensionRisks ==
    LET card == StructuredInsights[CHOOSE k \in DOMAIN StructuredInsights :
                                      StructuredInsights[k].insight_type = "RISK"]
        AboutDimension(r) == r.dimension # ""
    IN  SelectSeq(card.insight_json, AboutDimension)

\* C23: the RISK insight has one dimension-risk entry for each numeric
\* dimension score of the rank-1 vendor below 6.0, a score of exactly 0.0
\* included, with severity HIGH below 4.0 and MEDIUM otherwise and a
\* mitigation naming the dimension; it has none for a score of 6.0 or more.
C23_LowScoresAreRisks ==
    InsightsReturned =>
        \A i \in DOMAIN results.list[1].dimension_scores :
            LET dim  == results.list[1].dimension_scores[i]
                hits == {k \in DOMAIN DimensionRisks :
                            DimensionRisks[k].dimension = dim.dimension_code}
            IN  dim.has_score =>
                    IF dim.score < 60
                    THEN /\ Cardinality(hits) = 1
                         /\ \A k \in hits :
                              /\ DimensionRisks[k].severity =
                                    IF dim.score < 40 THEN "HIGH" ELSE "MEDIUM"
                              /\ DimensionRisks[k].mitigation[2] = lower(dim.dimension_code)
                    ELSE hits = {}

(***************************************************************************)
(* Claims about the DELIVERY dimension score (checked under SpecScore).    *)
(***************************************************************************)
\* The DELIVERY dimension score (tenths) of result row k.
DeliveryScoreOf(k) == results.list[k].dimension_scores[2].score

MaxDelivery == SetMax({vendors_data[i].delivery_days : i \in DOMAIN vendors_data})

\* C24: in every pool whose delivery days are not all identical, a pool
\* whose fastest delivery is 0 days included, a vendor has DELIVERY score
\* 10.0 only if its delivery days equal the pool minimum, and a vendor with
\* delivery days above the minimum scores at most 9.0.
C24_SlowerDeliveryScoresLower ==
    (Ranked /\ MaxDelivery > MinDelivery) =>
        \A k \in DOMAIN results.list :
            /\ DeliveryScoreOf(k) = 100 => results.list[k].delivery_days = MinDelivery
            /\ results.list[k].delivery_days > MinDelivery => DeliveryScoreOf(k) <= 90

(***************************************************************************)
(* Claims about the single-vendor comparison (checked under SpecLine).     *)
(***************************************************************************)
\* The vendors that quote every material of the order.
FullVendors == {v \in LineVendors : QuotesEveryMaterial(raw_data, v)}

\* A vendor that misses a material and whose quotes add up to less than any
\* whole-order cost.
CheaperPartialVendor ==
    \E v \in LineVendors \ FullVendors :
        /\ \E i \in DOMAIN raw_data : raw_data[i].VENDOR_NAME = v
        /\ WholeOrderCost(raw_data, v) < ExactSingleVendorCost(raw_data)

\* C25 as stated: when some vendor quoted every material,
\* total_cost_single_vendor equals the minimum, over the vendors that quoted
\* every material, of the sum of price times quantity over all materials.
C25_AsStated ==
    (LineCalled /\ FullVendors # {}) =>
        split_award.total_cost_single_vendor = ExactSingleVendorCost(raw_data)

\* C25: when some vendor quoted every material, total_cost_single_vendor is
\* the minimum, over exactly the vendors that quoted every material, of the
\* sum of price times quantity over all materials, rounded to two decimals;
\* a vendor missing a quote never determines it.
C25_SingleVendorCostIsCheapestFullQuote ==
    (LineCalled /\ FullVendors # {}) =>
        /\ split_award.total_cost_single_vendor = Round2(ExactSingleVendorCost(raw_data))
        /\ split_award.single_vendor_option \in
              {v \in FullVendors :
                  WholeOrderCost(raw_data, v) = ExactSingleVendorCost(raw_data)}

\* One vendor quotes every material, the other only one of them and for
\* less, and the reported cost is not the unrounded minimum.
C25_Witness ==
    /\ LineCalled
    /\ FullVendors # {}
    /\ CheaperPartialVendor
    /\ split_award.total_cost_single_vendor # ExactSingleVendorCost(raw_data)

(***************************************************************************)
(* Claims about the order of the structured insights (SpecApi).            *)
(***************************************************************************)
\* The enhanced engine was called on a ranking with at least one vendor.
InsightsCalled ==
    /\ ai.status # "none"
    /\ ai.engine = "enhanced"
    /\ results.status = "returned"
    /\ results.list # <<>>

\* The materials of the line-item data the engine was given.
SuppliedMaterials ==
    IF line_item_data.status = "returned" THEN line_item_data.list[1].materials ELSE <<>>

\* The insight types the claim prescribes, in order.
PrescribedTypes ==
    <<"PRIMARY_REC">>
    \o (IF Len(results.list) >= 2 THEN <<"ALTERNATE">> ELSE <<>>)
    \o <<"NEGOTIATION", "RISK">>
    \o (IF Len(results.list) >= 2 THEN <<"IMPACT">> ELSE <<>>)
    \o [m \in DOMAIN SuppliedMaterials |-> "LINE_ITEM"]

InsightsInPrescribedOrder ==
    /\ \A k \in DOMAIN StructuredInsights : StructuredInsights[k].insight_order = k
    /\ [k \in DOMAIN StructuredInsights |-> StructuredInsights[k].insight_type]
          = PrescribedTypes

\* C26: for every vendor list with at least one vendor the structured
\* insights are numbered 1..K in list order and their types are PRIMARY_REC,
\* ALTERNATE, NEGOTIATION, RISK, IMPACT, then the LINE_ITEM cards, with
\* PRIMARY_REC, NEGOTIATION and RISK once, ALTERNATE and IMPACT once exactly
\* when there is a second vendor, and one LINE_ITEM card per material of
\* the supplied line-item data.
C26_InsightsInOrder ==
    InsightsCalled => (ai.status = "returned" /\ InsightsInPrescribedOrder)

(***************************************************************************)
(* Claims about the per-material ranking (checked under SpecLine).         *)
(***************************************************************************)
AnalysedMaterials == line_item_data.list[1].materials

\* The weight the claim gives a dimension under the engine's priority.
ClaimedWeight(dimension) == IF priority = dimension THEN 3 ELSE 1

\* The priority-weighted rank-sum (doubled) of quote k among the quotes q of
\* one material: ascending ranks of price and delivery days, descending rank
\* of payment days.
WeightedRankSum(q, k) ==
    ClaimedWeight("low_price") * Rank2Asc(Column(q, "price"), k)
    + ClaimedWeight("fast_delivery") * Rank2Asc(Column(q, "delivery_days"), k)
    + ClaimedWeight("payment_terms") * Rank2Desc(Column(q, "payment_terms_days"), k)

\* The rank-sum (doubled) with every weight 1.
UnweightedRankSum(q, k) ==
    Rank2Asc(Column(q, "price"), k) + Rank2Asc(Column(q, "delivery_days"), k)
        + Rank2Desc(Column(q, "payment_terms_days"), k)

\* C27: for every material and every priority the ranks of its k quotes are
\* 1..k by ascending priority-weighted rank-sum (3x on the priority
\* dimension, 1x on the others, equal weights for balanced); the recommended
\* vendor is the rank-1 quote and its rank-sum is minimal; an alternative
\* is present if and only if k >= 2, and it is the rank-2 quote.
C27_MaterialRanking ==
    LineCalled =>
        \A m \in DOMAIN AnalysedMaterials :
            LET q   == AnalysedMaterials[m].vendor_quotes
                rec == AnalysedMaterials[m].recommended_vendor
            IN  /\ \A k \in DOMAIN q :
                    /\ q[k].rank_for_this_material = k
                    /\ q[k].score = WeightedRankSum(q, k)
                    /\ \A j \in DOMAIN q : j < k => q[j].score <= q[k].score
                /\ rec.vendor_name = q[1].vendor_name
                /\ rec.price = q[1].price
                /\ rec.score = q[1].score
                /\ \A k \in DOMAIN q : rec.score <= WeightedRankSum(q, k)
                /\ (rec.alternative # <<>>) <=> (Len(q) >= 2)
                /\ Len(q) >= 2 => rec.alternative = <<q[2].vendor_name>>

\* A material with two quotes that the priority's weight puts in an order
\* the unweighted rank-sum does not force, and with an alternative.
C27_Witness ==
    /\ LineCalled
    /\ priority # "balanced"
    /\ \E m \in DOMAIN AnalysedMaterials :
        LET q == AnalysedMaterials[m].vendor_quotes
        IN  /\ Len(q) = 2
            /\ q[1].score < q[2].score
            /\ UnweightedRankSum(q, 1) >= UnweightedRankSum(q, 2)
            /\ AnalysedMaterials[m].recommended_vendor.alternative = <<q[2].vendor_name>>

(***************************************************************************)
(* Claims about an order no single vendor can supply (SpecLine).           *)
(***************************************************************************)
\* C30: whenever no vendor quoted every material, analyze_materials reports
\* total_cost_single_vendor = 0, total_savings = -total_cost_split (not
\* above zero), savings_percentage = 0 and is_recommended = false, however
\* many vendors the split allocation uses.
C30_NoSingleVendorMeansNoSavings ==
    (LineCalled /\ FullVendors = {}) =>
        /\ split_award.total_cost_single_vendor = 0
        /\ split_award.total_savings = 0 - split_award.total_cost_split
        /\ split_award.total_savings <= 0
        /\ split_award.savings_percentage = 0
        /\ split_award.is_recommended = FALSE

\* Two materials, each quoted by one vendor only, a different one each: the
\* split uses two vendors and costs something.
C30_Witness ==
    /\ LineCalled
    /\ FullVendors = {}
    /\ Len(split_award.vendor_allocation) = 2
    /\ split_award.total_cost_split > 0

(***************************************************************************)
(* Claims about transform_to_comparison_format (SpecTransform).            *)
(***************************************************************************)
Transformed == calls = <<"transform_to_comparison_format">>

RawVendorNames == {raw_data[i].VENDOR_NAME : i \in DOMAIN raw_data}

\* The position of the first raw row of a vendor, and the vendor's rows.
FirstRowOf(name) == SetMin({i \in DOMAIN raw_data : raw_data[i].VENDOR_NAME = name})

RowsOf(name) == {i \in DOMAIN raw_data : raw_data[i].VENDOR_NAME = name}

TotalValueOf(name) ==
    SumSeq([i \in DOMAIN raw_data |->
        IF raw_data[i].VENDOR_NAME = name
        THEN raw_data[i].BASIC_PRICE * raw_data[i].QTY ELSE 0])

TotalQtyOf(name) ==
    SumSeq([i \in DOMAIN raw_data |->
        IF raw_data[i].VENDOR_NAME = name THEN raw_data[i].QTY ELSE 0])

\* One record per distinct vendor name, in order of first appearance; every
\* raw row is exactly one material entry of its vendor's record; terms and
\* delivery days are those of the vendor's first row.
RecordsGroupRows ==
    /\ Len(vendors_data) = Cardinality(RawVendorNames)
    /\ {vendors_data[v].vendor_name : v \in DOMAIN vendors_data} = RawVendorNames
    /\ \A v, w \in DOMAIN vendors_data :
        v < w => FirstRowOf(vendors_data[v].vendor_name)
                    < FirstRowOf(vendors_data[w].vendor_name)
    /\ SumSeq([v \in DOMAIN vendors_data |-> Len(vendors_data[v].materials)])
          = Len(raw_data)
    /\ \A i \in DOMAIN raw_data :
        Cardinality({<<v, k>> \in (DOMAIN vendors_data) \X (1..Len(raw_data)) :
                        /\ k \in DOMAIN vendors_data[v].materials
                        /\ vendors_data[v].vendor_name = raw_data[i].VENDOR_NAME
                        /\ vendors_data[v].materials[k]
                              = [mat_code |-> raw_data[i].MAT_CODE,
                                 price    |-> raw_data[i].BASIC_PRICE,
                                 qty      |-> raw_data[i].QTY]}) = 1
    /\ \A v \in DOMAIN vendors_data :
        LET first == raw_data[FirstRowOf(vendors_data[v].vendor_name)]
        IN  /\ vendors_data[v].payment_terms_days = Gateway_map_payment_term(first.PAY_TERM)
            /\ vendors_data[v].delivery_days = first.DELIVERY_DAYS
            /\ TotalQtyOf(vendors_data[v].vendor_name) = 0 => vendors_data[v].price = 0

\* C28 as stated: the records group the rows, and each record's price is
\* the quantity-weighted average of its materials' unit prices.
C28_AsStated ==
    Transformed =>
        /\ RecordsGroupRows
        /\ \A v \in DOMAIN vendors_data :
            TotalQtyOf(vendors_data[v].vendor_name) > 0 =>
                vendors_data[v].price * TotalQtyOf(vendors_data[v].vendor_name)
                    = TotalValueOf(vendors_data[v].vendor_name)

\* C28: one record per distinct vendor name in order of first appearance;
\* every raw row is exactly one material entry of its vendor's record;
\* each record's price is the quantity-weighted average of its materials'
\* unit prices rounded to two decimals (a whole number of cents within half
\* a cent of the average), 0 when the total quantity is 0; payment-terms
\* days and delivery days are those of the vendor's first row.
C28_RecordsAggregateRows ==
    Transformed =>
        /\ RecordsGroupRows
        /\ \A v \in DOMAIN vendors_data :
            LET tq == TotalQtyOf(vendors_data[v].vendor_name)
                tv == TotalValueOf(vendors_data[v].vendor_name)
                d  == vendors_data[v].price * tq - tv
            IN  tq > 0 =>
                    /\ vendors_data[v].price % 5 = 0
                    /\ 2 * d <= 5 * tq
                    /\ 2 * d >= 0 - 5 * tq

\* A vendor with two rows of different price, quantity and header, whose
\* average price is not a whole number of cents.
C28_Witness ==
    /\ Transformed
    /\ \E v \in DOMAIN vendors_data :
        LET name == vendors_data[v].vendor_name
        IN  /\ Len(vendors_data[v].materials) = 2
            /\ TotalQtyOf(name) > 0
            /\ vendors_data[v].price * TotalQtyOf(name) # TotalValueOf(name)
            /\ \E i \in RowsOf(name) :
                raw_data[i].DELIVERY_DAYS # vendors_data[v].delivery_days

(***************************************************************************)
(* Claims about the basic comparison engine (checked under SpecBasic).     *)
(***************************************************************************)
\* The basic engine was called on a non-empty vendor list.
BasicRankCalled == results.status # "none" /\ vendors_data # <<>>

\* C29: for every non-empty vendor list and every priority the basic
\* rank_vendors returns normally with one RankingResult per vendor, ranked
\* 1..N in ascending order of the rank-sum (priority rank times 3 plus the
\* other two ranks; ascending for price and delivery, descending for
\* payment days; all weights 1 for balanced).
C29_BasicRankingReturns ==
    BasicRankCalled =>
        /\ results.status = "returned"
        /\ Len(results.list) = Len(vendors_data)
        /\ \A k \in DOMAIN results.list :
            /\ results.list[k].rank = k
            /\ results.list[k].score = WeightedRankSum(results.list, k)
            /\ \A j \in DOMAIN results.list :
                j < k => results.list[j].score <= results.list[k].score

====
